---- MODULE Spec2Model ----
(***************************************************************************)
(* Model of scripts/build_us_macro_labor_dataset.py: the builder of the    *)
(* monthly US macro + labor panel (FRED, BLS and Census sources).          *)
(*                                                                         *)
(* Conventions                                                             *)
(*   - A Python str is a sequence of one-character strings (Chars), so     *)
(*     that slicing, concatenation, searching and parsing are computed.    *)
(*     Dictionary keys that the code only compares (column names, series   *)
(*     ids) are kept as TLA+ strings.                                      *)
(*   - A Python "float | None" is None == <<>> or Some(v) == <<v>>.        *)
(*   - A float is named by an integer count of tenths n (5.4 is 54): it    *)
(*     is the double nearest to n/10, which is what float() returns for    *)
(*     the literal, so two such floats compare as their counts do.         *)
(*     Additions are IEEE-754 double additions, rounded to nearest-even    *)
(*     (section "Float arithmetic"): 0.1 + 0.2 is not the float 0.3.       *)
(*   - A JSON cell is a tagged record: JNull, JStr(chars) or JNum(tenths). *)
(*   - An exception leaving a function is the result Raised.               *)
(***************************************************************************)
EXTENDS Integers, Sequences, FiniteSets, TLC

VARIABLES
    \* weighted_median applied to drawn inputs
    wm_pc, wm_values, wm_weights, wm_result,
    \* month_range applied to drawn inputs
    mr_pc, mr_start, mr_end, mr_out,
    \* the CPS row loop applied to one drawn response table
    cy_pc, cy_table, cy_result,
    \* a per-year Census fetcher applied to a drawn range and drawn responses
    cen_pc, cen_fn, cen_start, cen_end, cen_net, cen_out,
    \* fetch_pep_us_population applied to a drawn range and drawn responses
    pep_pc, pep_start, pep_end, pep_net, pep_out,
    \* main: the environment (credentials, today's date, what the sources
    \* serve), the position in main, its local variables
    \* (bls_year is the loop variable year of the BLS chunk loop), the
    \* requests issued so far and the files written
    fred_key, bls_key, census_key, END_DATE, baseline, variations,
    pc, months, fred_data, fred_i, bls_data, bls_year, acs_data, cps_income,
    pep_population, docs, log, files,
    \* the assembly step of main run twice on the same drawn maps
    asm_pc, asm_months, asm_fred, asm_bls, asm_acs, asm_cps, asm_pep,
    asm_docs, asm_file, asm_first

wmVars == <<wm_pc, wm_values, wm_weights, wm_result>>
mrVars == <<mr_pc, mr_start, mr_end, mr_out>>
cyVars == <<cy_pc, cy_table, cy_result>>
cenVars == <<cen_pc, cen_fn, cen_start, cen_end, cen_net, cen_out>>
pepVars == <<pep_pc, pep_start, pep_end, pep_net, pep_out>>
envVars == <<fred_key, bls_key, census_key, END_DATE, baseline>>
mainVars == <<envVars, variations, pc, months, fred_data, fred_i, bls_data, bls_year,
              acs_data, cps_income, pep_population, docs, log, files>>
asmVars == <<asm_pc, asm_months, asm_fred, asm_bls, asm_acs, asm_cps, asm_pep,
             asm_docs, asm_file, asm_first>>
vars == <<wmVars, mrVars, cyVars, cenVars, pepVars, mainVars, asmVars>>

\* what a specification of one component leaves alone
notWm == <<mrVars, cyVars, cenVars, pepVars, mainVars, asmVars>>
notMr == <<wmVars, cyVars, cenVars, pepVars, mainVars, asmVars>>
notCy == <<wmVars, mrVars, cenVars, pepVars, mainVars, asmVars>>
notCen == <<wmVars, mrVars, cyVars, pepVars, mainVars, asmVars>>
notPep == <<wmVars, mrVars, cyVars, cenVars, mainVars, asmVars>>
notMain == <<wmVars, mrVars, cyVars, cenVars, pepVars, asmVars>>
notAsm == <<wmVars, mrVars, cyVars, cenVars, pepVars, mainVars>>

(***************************************************************************)
(* Bounds of the model                                                     *)
(***************************************************************************)
\* longest values / weights list handed to weighted_median
MaxLen == 3
\* largest value (in tenths) drawn for weighted_median
MaxVal == 3
\* number of years after START_DATE's from which month_range inputs are drawn
MaxSpanYears == 1
\* most data rows of a drawn CPS response table
MaxCpsRows == 2
\* a per-year Census fetcher is called on at most MaxCenSpan + 1 years
MaxCenSpan == 2
\* the latest year of END_DATE (date.today()) that main is run with
MaxEndYear == 2026
\* most requests of one run of main that are answered otherwise than the
\* run's baseline
MaxVariations == 1

(***************************************************************************)
(* Python values                                                           *)
(***************************************************************************)
None == <<>>
Some(v) == <<v>>
IsNone(x) == x = <<>>
Raised == <<"raised", "raised">>

JNull == [t |-> "null", s |-> <<>>, v |-> 0]
JStr(s) == [t |-> "str", s |-> s, v |-> 0]
JNum(v) == [t |-> "num", s |-> <<>>, v |-> v]

Digits == <<"0", "1", "2", "3", "4", "5", "6", "7", "8", "9">>
IsDigit(c) == \E i \in 1..10 : Digits[i] = c
DigitVal(c) == (CHOOSE i \in 1..10 : Digits[i] = c) - 1
DigitChar(n) == Digits[n + 1]

Min(a, b) == IF a <= b THEN a ELSE b

\* s[i:j] with 0-based, end-exclusive Python indices, clamped like a slice
Slice(s, i, j) == SubSeq(s, i + 1, Min(j, Len(s)))

\* str.startswith
StartsWith(s, p) == Len(s) >= Len(p) /\ SubSeq(s, 1, Len(p)) = p

\* "sub in s"
Contains(s, sub) ==
    \E i \in 1..(Len(s) - Len(sub) + 1) : SubSeq(s, i, i + Len(sub) - 1) = sub

\* str.strip(): the model's only whitespace character is the space
RECURSIVE LStrip(_)
LStrip(s) == IF s # <<>> /\ Head(s) = " " THEN LStrip(Tail(s)) ELSE s
RECURSIVE RStrip(_)
RStrip(s) ==
    IF s # <<>> /\ s[Len(s)] = " " THEN RStrip(SubSeq(s, 1, Len(s) - 1)) ELSE s
Strip(s) == RStrip(LStrip(s))

AllDigits(s) == \A i \in 1..Len(s) : IsDigit(s[i])

\* value of a (possibly empty) string of decimal digits
RECURSIVE DigitsVal(_)
DigitsVal(s) ==
    IF s = <<>> THEN 0
    ELSE 10 * DigitsVal(SubSeq(s, 1, Len(s) - 1)) + DigitVal(s[Len(s)])

\* a numeric literal's digits: decimal digits with single underscores
\* between them
IsGrouped(s) ==
    /\ s # <<>> /\ IsDigit(s[1]) /\ IsDigit(s[Len(s)])
    /\ \A i \in 1..Len(s) : IsDigit(s[i]) \/ (s[i] = "_" /\ IsDigit(s[i - 1]))
\* the digits without the underscores
Ungrouped(s) == SelectSeq(s, LAMBDA c : c # "_")

\* int(s) for a str of ASCII characters: Raised stands for ValueError.
\* Python accepts surrounding whitespace, a sign (+ or -) and single
\* underscores between the digits.
IntOf(s) ==
    LET t == Strip(s)
        signed == t # <<>> /\ (Head(t) = "-" \/ Head(t) = "+")
        neg == t # <<>> /\ Head(t) = "-"
        body == IF signed THEN Tail(t) ELSE t
    IN  IF IsGrouped(body)
        THEN Some(IF neg THEN 0 - DigitsVal(Ungrouped(body))
                  ELSE DigitsVal(Ungrouped(body)))
        ELSE Raised

\* float(s) for a stripped str over the characters 0-9 . - + _ and letters
\* that occur in no float literal: None stands for ValueError.  The result
\* is in tenths, so a literal has at most one fractional digit.
FloatOfStr(s) ==
    LET neg == s # <<>> /\ Head(s) = "-"
        body == IF s # <<>> /\ (Head(s) = "-" \/ Head(s) = "+") THEN Tail(s) ELSE s
        dots == {i \in 1..Len(body) : body[i] = "."}
        ip == IF dots = {} THEN body
              ELSE SubSeq(body, 1, (CHOOSE i \in dots : TRUE) - 1)
        fp == IF dots = {} THEN <<>>
              ELSE SubSeq(body, (CHOOSE i \in dots : TRUE) + 1, Len(body))
        wellFormed == /\ Cardinality(dots) <= 1
                      /\ (ip = <<>> \/ IsGrouped(ip)) /\ (fp = <<>> \/ IsGrouped(fp))
                      /\ Len(ip) + Len(fp) >= 1
        mag == 10 * DigitsVal(Ungrouped(ip)) + (IF fp = <<>> THEN 0 ELSE DigitVal(fp[1]))
    IN  CASE ~wellFormed -> None
          [] wellFormed /\ Len(fp) <= 1 -> Some(IF neg THEN 0 - mag ELSE mag)

parse_float(val) ==
    IF val.t = "null" THEN None
    ELSE IF val.t = "num" THEN Some(val.v)
    ELSE LET s == Strip(val.s)
         IN  IF s = <<>> \/ s = <<".">> THEN None ELSE FloatOfStr(s)

(***************************************************************************)
(* Float arithmetic                                                        *)
(*                                                                         *)
(* A double is the pair <<n, c>> standing for the number                   *)
(* (n * 2^60 + c) / (10 * 2^60): n tenths and a deviation c from them in   *)
(* units of 1 / (10 * 2^60).  Every double met here (a float literal of    *)
(* one fractional digit, a sum of such) is a whole number of these units.  *)
(* The exact sum of two doubles is the sum of their pairs; rounding it to  *)
(* the nearest double changes c only.                                      *)
(***************************************************************************)
FloatZero == <<0, 0>>

\* 2^k mod 10, for k >= 1
Pow2Mod10(k) == <<2, 4, 8, 6>>[((k - 1) % 4) + 1]

\* <<n, c>> >= 2^e, for n >= 1 and a deviation below one tenth
FloatAtLeastPow2(n, c, e) ==
    IF e >= 0 THEN n > 10 * 2^e \/ (n = 10 * 2^e /\ c >= 0)
    ELSE n * 2^(0 - e) > 10 \/ (n * 2^(0 - e) = 10 /\ c >= 0)

\* the binary exponent of <<n, c>>: the largest e, from e upward, with
\* 2^e <= <<n, c>>
RECURSIVE FloatExponent(_, _, _)
FloatExponent(n, c, e) ==
    IF FloatAtLeastPow2(n, c, e + 1) THEN FloatExponent(n, c, e + 1) ELSE e

\* the double nearest to the exact number <<n, c>>, n >= 0, ties to the
\* even mantissa.  Doubles of exponent e are 2^(e-52) apart, which is
\* g = 10 * 2^(8+e) units; r is the excess of <<n, c>> over the double
\* below it and r2 its excess over the double of even mantissa below it.
\* Whole numbers and the differences of nearly equal doubles are doubles.
FloatRoundMagnitude(n, c) ==
    IF n = 0 \/ (n % 10 = 0 /\ c = 0) THEN <<n, c>>
    ELSE LET e == FloatExponent(n, c, 0 - 4)
             h == 2^(8 + e)
             g == 10 * h
             r == (h * ((n * Pow2Mod10(52 - e)) % 10) + c) % g
             r2 == (2 * h * ((n * Pow2Mod10(51 - e)) % 10) + c) % (2 * g)
         IN  IF r = 0 THEN <<n, c>>
             ELSE IF 2 * r < g \/ (2 * r = g /\ r2 = r) THEN <<n, c - r>>
             ELSE <<n, c - r + g>>

FloatRound(n, c) ==
    IF n < 0 THEN LET m == FloatRoundMagnitude(0 - n, 0 - c) IN <<0 - m[1], 0 - m[2]>>
    ELSE FloatRoundMagnitude(n, c)

\* float(literal) for the literal of n tenths
ToFloat(n) == FloatRound(n, 0)

\* x + y on doubles
FloatAdd(x, y) == FloatRound(x[1] + y[1], x[2] + y[2])

\* -x, abs(x) and x >= y on doubles
FloatNeg(x) == <<0 - x[1], 0 - x[2]>>
FloatAbs(x) == IF x[1] < 0 \/ (x[1] = 0 /\ x[2] < 0) THEN FloatNeg(x) ELSE x
FloatAtLeast(x, y) == x[1] > y[1] \/ (x[1] = y[1] /\ x[2] >= y[2])

\* x <= 0 on a double
FloatNotPositive(x) == x[1] < 0 \/ (x[1] = 0 /\ x[2] <= 0)

\* running >= total / 2.0 on doubles
FloatReachesHalf(running, total) ==
    \/ 2 * running[1] > total[1]
    \/ (2 * running[1] = total[1] /\ 2 * running[2] >= total[2])

\* running > total / 2.0 on doubles
FloatExceedsHalf(running, total) ==
    \/ 2 * running[1] > total[1]
    \/ (2 * running[1] = total[1] /\ 2 * running[2] > total[2])

\* a + b for two floats named by their tenths, where the rounded sum is
\* again the float of a count of tenths (whole numbers always are)
FloatSum(a, b) ==
    CASE FloatAdd(ToFloat(a), ToFloat(b)) = ToFloat(a + b) -> a + b

(***************************************************************************)
(* Dates                                                                   *)
(***************************************************************************)
date(y, m, d) == [year |-> y, month |-> m, day |-> d]

Pad2(n) == <<DigitChar(n \div 10), DigitChar(n % 10)>>
Pad4(n) == <<DigitChar(n \div 1000), DigitChar((n \div 100) % 10),
             DigitChar((n \div 10) % 10), DigitChar(n % 10)>>

\* date.isoformat(): "YYYY-MM-DD"
isoformat(d) == Pad4(d.year) \o <<"-">> \o Pad2(d.month) \o <<"-">> \o Pad2(d.day)

START_DATE == date(1985, 1, 1)

\* the generator's loop, from the position (y, m)
RECURSIVE months_to_december(_, _, _, _)
months_to_december(y, m, end, out) ==
    IF m <= 12 /\ ((y < end.year) \/ (y = end.year /\ m <= end.month))
    THEN months_to_december(y, m + 1, end, Append(out, date(y, m, 1)))
    ELSE out

\* the while loop, one year of iterations at a time: the months of cur's
\* year that are not after end, then, when December was reached
\* (cur.month == 12), the loop from January 1 of the next year
RECURSIVE month_range_from(_, _, _)
month_range_from(y, m, end) ==
    months_to_december(y, m, end, <<>>) \o
    (IF y < end.year THEN month_range_from(y + 1, 1, end) ELSE <<>>)

\* a plausible slip: December wraps to February of the next year
RECURSIVE month_range_from_norollover(_, _, _)
month_range_from_norollover(y, m, end) ==
    months_to_december(y, m, end, <<>>) \o
    (IF y < end.year THEN month_range_from_norollover(y + 1, 2, end) ELSE <<>>)
month_range_skips_january(start, end) ==
    month_range_from_norollover(start.year, start.month, end)

month_range(start, end) == month_range_from(start.year, start.month, end)

(***************************************************************************)
(* weighted_median                                                         *)
(***************************************************************************)
\* zip(values, weights): pairs up to the shorter list
Zip(values, weights) ==
    [i \in 1..Min(Len(values), Len(weights)) |-> <<values[i], weights[i]>>]

\* sorted(pairs, key=value) is stable: p goes after every pair whose value
\* is not greater
\* a plausible slip: the pairs are sorted in descending order of value
InsertPairDescending(p, s) ==
    LET k == Cardinality({i \in 1..Len(s) : s[i][1] >= p[1]})
    IN  SubSeq(s, 1, k) \o <<p>> \o SubSeq(s, k + 1, Len(s))

InsertPair(p, s) ==
    LET k == Cardinality({i \in 1..Len(s) : s[i][1] <= p[1]})
    IN  SubSeq(s, 1, k) \o <<p>> \o SubSeq(s, k + 1, Len(s))
RECURSIVE SortedPairs(_)
SortedPairs(s) ==
    IF s = <<>> THEN <<>>
    ELSE InsertPair(s[Len(s)], SortedPairs(SubSeq(s, 1, Len(s) - 1)))

\* The built-in sum of floats depends on the interpreter that runs the
\* script, which the repository does not pin: CPython up to 3.11 adds the
\* items one by one, left to right, each addition rounded; CPython from 3.12
\* on keeps a compensation term beside the rounded sum (Neumaier) and adds
\* it at the end.  With whole-number weights both give the exact sum.
\* A function that adds floats with sum takes the build as its last
\* parameter, and the action that calls it chooses the build.
SumBuilds == {"sequential", "compensated"}

\* the weights of pairs[i..] added to acc one by one
RECURSIVE SumSequential(_, _, _)
SumSequential(pairs, i, acc) ==
    IF i > Len(pairs) THEN acc
    ELSE SumSequential(pairs, i + 1, FloatAdd(acc, ToFloat(pairs[i][2])))

\* the weights of pairs[i..] added to the sum hi with compensation lo
RECURSIVE SumCompensated(_, _, _, _)
SumCompensated(pairs, i, hi, lo) ==
    IF i > Len(pairs) THEN FloatAdd(hi, lo)
    ELSE LET x == ToFloat(pairs[i][2])
             t == FloatAdd(hi, x)
             err == IF FloatAtLeast(FloatAbs(hi), FloatAbs(x))
                    THEN FloatAdd(FloatAdd(hi, FloatNeg(t)), x)
                    ELSE FloatAdd(FloatAdd(x, FloatNeg(t)), hi)
         IN  SumCompensated(pairs, i + 1, t, FloatAdd(lo, err))

\* sum(w for _, w in pairs), for a non-empty list of pairs: the first
\* weight is added to the int 0, the others to the float sum
SumWeights(pairs, build) ==
    IF build = "sequential" THEN SumSequential(pairs, 1, FloatZero)
    ELSE SumCompensated(pairs, 2, ToFloat(pairs[1][2]), FloatZero)

\* the accumulation loop from index i; running and total are doubles, and
\* running >= total / 2.0 is FloatReachesHalf (halving a double is exact)
RECURSIVE MedianWalk(_, _, _, _)
MedianWalk(pairs, i, running, total) ==
    IF i > Len(pairs) THEN Some(pairs[Len(pairs)][1])
    ELSE LET r == FloatAdd(running, ToFloat(pairs[i][2]))
         IN  IF FloatReachesHalf(r, total) THEN Some(pairs[i][1])
             ELSE MedianWalk(pairs, i + 1, r, total)

\* a plausible slip: the cutoff test is strict
RECURSIVE MedianWalkStrict(_, _, _, _)
MedianWalkStrict(pairs, i, running, total) ==
    IF i > Len(pairs) THEN Some(pairs[Len(pairs)][1])
    ELSE LET r == FloatAdd(running, ToFloat(pairs[i][2]))
         IN  IF FloatExceedsHalf(r, total) THEN Some(pairs[i][1])
             ELSE MedianWalkStrict(pairs, i + 1, r, total)
weighted_median_strict(values, weights, build) ==
    IF values = <<>> \/ weights = <<>> THEN None
    ELSE LET pairs == SortedPairs(Zip(values, weights))
             total == SumWeights(pairs, build)
         IN  IF FloatNotPositive(total) THEN None
             ELSE MedianWalkStrict(pairs, 1, FloatZero, total)

weighted_median(values, weights, build) ==
    IF values = <<>> \/ weights = <<>> THEN None
    ELSE LET pairs == SortedPairs(Zip(values, weights))
             total == SumWeights(pairs, build)
         IN  IF FloatNotPositive(total) THEN None
             ELSE MedianWalk(pairs, 1, FloatZero, total)

(***************************************************************************)
(* Census API tables: data[0] is the header, data[1:] are the rows.  A     *)
(* response is Exc (http_get_json raised), Empty (an empty JSON array) or  *)
(* Table(header, rows); every row is as long as the header.                *)
(***************************************************************************)
Exc == [kind |-> "exc", header |-> <<>>, rows |-> <<>>]
Empty == [kind |-> "empty", header |-> <<>>, rows |-> <<>>]
Table(header, rows) == [kind |-> "table", header |-> header, rows |-> rows]

\* len(data) for a response that did not raise
DataLen(r) == IF r.kind = "table" THEN 1 + Len(r.rows) ELSE 0

\* idx = {name: i for i, name in enumerate(header)}: the last position wins
HasCol(header, name) == \E i \in 1..Len(header) : header[i] = name
ColIndex(header, name) ==
    CHOOSE i \in 1..Len(header) :
        header[i] = name /\ \A j \in (i + 1)..Len(header) : header[j] # name

\* parse_float(row[idx[name]]) if name in idx else None
ParsedCell(header, row, name) ==
    IF HasCol(header, name) THEN parse_float(row[ColIndex(header, name)]) ELSE None

\* dictionaries: dict.get and item assignment
EmptyMap == [k \in {} |-> None]
Get(map, k) == IF k \in DOMAIN map THEN map[k] ELSE None
Put(map, k, v) == [x \in DOMAIN map \cup {k} |-> IF x = k THEN v ELSE map[x]]

(***************************************************************************)
(* fetch_cps_asec_median_household_income: one year's rows                 *)
(***************************************************************************)
\* a plausible slip: the weight is not tested for being positive
CpsKeepsRowAnyWeight(value, weight) == ~(value = None \/ weight = None)

\* the negation of the condition of "continue" in the row loop
CpsKeepsRow(value, weight) ==
    ~(value = None \/ weight = None \/ weight[1] <= 0)

CpsKeptRows(header, rows) ==
    SelectSeq(rows, LAMBDA row : CpsKeepsRow(ParsedCell(header, row, "HTOTVAL"),
                                             ParsedCell(header, row, "HSUP_WGT")))

\* out[year] for a response with a header and at least one row
CpsYearMedian(header, rows, build) ==
    LET kept == CpsKeptRows(header, rows)
        values == [i \in 1..Len(kept) |-> ParsedCell(header, kept[i], "HTOTVAL")[1]]
        weights == [i \in 1..Len(kept) |-> ParsedCell(header, kept[i], "HSUP_WGT")[1]]
    IN  weighted_median(values, weights, build)

(***************************************************************************)
(* The per-year Census fetchers.  net[year] is what http_get_json does for *)
(* that year's URL.                                                        *)
(***************************************************************************)
RECURSIVE CpsLoop(_, _, _, _, _)
CpsLoop(net, year, end_year, out, build) ==
    IF year > end_year THEN out
    ELSE IF net[year].kind = "exc" THEN CpsLoop(net, year + 1, end_year, out, build)
    ELSE IF DataLen(net[year]) < 2 THEN CpsLoop(net, year + 1, end_year, out, build)
    ELSE CpsLoop(net, year + 1, end_year,
                 Put(out, year, CpsYearMedian(net[year].header, net[year].rows, build)),
                 build)

\* a plausible slip: a failed request ends the loop, as in the ACS fetcher
RECURSIVE CpsLoopBreaks(_, _, _, _, _)
CpsLoopBreaks(net, year, end_year, out, build) ==
    IF year > end_year THEN out
    ELSE IF net[year].kind = "exc" THEN out
    ELSE IF DataLen(net[year]) < 2 THEN CpsLoopBreaks(net, year + 1, end_year, out, build)
    ELSE CpsLoopBreaks(net, year + 1, end_year,
                       Put(out, year, CpsYearMedian(net[year].header, net[year].rows, build)),
                       build)
fetch_cps_breaks(net, start_year, end_year, build) ==
    CpsLoopBreaks(net, start_year, end_year, EmptyMap, build)

fetch_cps_asec_median_household_income(net, start_year, end_year, build) ==
    CpsLoop(net, start_year, end_year, EmptyMap, build)

CENSUS_VAR_IDS == {"B01001_001E", "B19013_001E"}

\* {k: parse_float(values.get(k)) for k in series_ids}, with
\* values = dict(zip(header, row))
AcsYearValues(header, row) ==
    [k \in CENSUS_VAR_IDS |->
        IF HasCol(header, k) THEN parse_float(row[ColIndex(header, k)])
        ELSE parse_float(JNull)]

RECURSIVE AcsLoop(_, _, _, _)
AcsLoop(net, year, end_year, out) ==
    IF year > end_year THEN out
    ELSE IF net[year].kind = "exc" THEN out
    ELSE IF DataLen(net[year]) < 2 THEN AcsLoop(net, year + 1, end_year, out)
    ELSE AcsLoop(net, year + 1, end_year,
                 Put(out, year, AcsYearValues(net[year].header, net[year].rows[1])))

fetch_census_acs1_us(net, start_year, end_year) ==
    AcsLoop(net, start_year, end_year, EmptyMap)

(***************************************************************************)
(* fetch_pep_us_population.  net holds what http_get_json does for each    *)
(* request: a7 and a07 (1990 intercensal with MONTH "7" and "07"), b (2000 *)
(* intercensal), c (vintage 2019) and d (vintage 2021 monthly).            *)
(***************************************************************************)
\* the positions where the pattern r"(19|20)\\d{2}" matches: "19" or "20",
\* then a backslash, then two letters d
YearPatternAt(text) ==
    {i \in 1..(Len(text) - 4) :
        /\ SubSeq(text, i, i + 1) \in {<<"1", "9">>, <<"2", "0">>}
        /\ text[i + 2] = "\\"
        /\ text[i + 3] = "d" /\ text[i + 4] = "d"}

\* a plausible repair: the pattern r"(19|20)\d{2}", "19" or "20" then two digits
YearDigitsAt(text) ==
    {i \in 1..(Len(text) - 3) :
        /\ SubSeq(text, i, i + 1) \in {<<"1", "9">>, <<"2", "0">>}
        /\ IsDigit(text[i + 2]) /\ IsDigit(text[i + 3])}
extract_year_four_digits(text) ==
    IF YearDigitsAt(text) = {} THEN None
    ELSE LET i == CHOOSE k \in YearDigitsAt(text) : \A j \in YearDigitsAt(text) : k <= j
         IN  IntOf(SubSeq(text, i, i + 3))

\* re.search returns the leftmost match; int(match.group(0)) may raise
extract_year_from_text(text) ==
    IF YearPatternAt(text) = {} THEN None
    ELSE LET i == CHOOSE k \in YearPatternAt(text) : \A j \in YearPatternAt(text) : k <= j
         IN  IntOf(SubSeq(text, i, i + 4))

\* truth value of a cell, and int(cell)
Truthy(cell) == (cell.t = "str" /\ cell.s # <<>>) \/ (cell.t = "num" /\ cell.v # 0)
\* int() of a number truncates toward zero
IntOfCell(cell) ==
    IF cell.t = "num"
    THEN Some(IF cell.v >= 0 THEN cell.v \div 10 ELSE 0 - ((0 - cell.v) \div 10))
    ELSE IntOf(cell.s)

\* the row loop of the 1990 intercensal window from row i: the totals, or
\* Raised (KeyError without a YEAR column, ValueError from int)
RECURSIVE PepTotals(_, _, _, _, _, _)
PepTotals(header, rows, i, totals, start_year, end_year) ==
    IF i > Len(rows) THEN totals
    ELSE IF ~HasCol(header, "YEAR") THEN Raised
    ELSE LET year == rows[i][ColIndex(header, "YEAR")]
             total == ParsedCell(header, rows[i], "TOT_POP")
         IN  IF ~Truthy(year) \/ total = None
             THEN PepTotals(header, rows, i + 1, totals, start_year, end_year)
             ELSE IF IntOfCell(year) = Raised THEN Raised
             ELSE LET y == IntOfCell(year)[1]
                  IN  IF y < start_year \/ y > end_year
                      THEN PepTotals(header, rows, i + 1, totals, start_year, end_year)
                      ELSE PepTotals(header, rows, i + 1,
                                     Put(totals, y,
                                         Some(FloatSum(IF y \in DOMAIN totals
                                                       THEN totals[y][1] ELSE 0,
                                                       total[1]))),
                                     start_year, end_year)

\* dict.update
Update(out, m) ==
    [k \in DOMAIN out \cup DOMAIN m |-> IF k \in DOMAIN m THEN m[k] ELSE out[k]]

\* "if data and len(data) > 1" for a response; a failed request leaves data = []
HasRows(r) == r.kind = "table" /\ DataLen(r) > 1

\* the loop "for month in ("7", "07")": the first attempt with rows is used
\* a plausible slip: the second attempt is made after a first one that had
\* rows, and its totals are added
PepWindowAAddsBoth(net, start_year, end_year, out) ==
    LET t7 == IF HasRows(net.a7)
              THEN PepTotals(net.a7.header, net.a7.rows, 1, EmptyMap,
                             start_year, end_year)
              ELSE EmptyMap
        t07 == IF HasRows(net.a07)
               THEN PepTotals(net.a07.header, net.a07.rows, 1, EmptyMap,
                              start_year, end_year)
               ELSE EmptyMap
    IN  IF t7 = Raised \/ t07 = Raised THEN Raised
        ELSE Update(out, [y \in DOMAIN t7 \cup DOMAIN t07 |->
                             Some(FloatSum(IF y \in DOMAIN t7 THEN t7[y][1] ELSE 0,
                                           IF y \in DOMAIN t07 THEN t07[y][1] ELSE 0))])

PepWindowA(net, start_year, end_year, out) ==
    LET used == IF HasRows(net.a7) THEN net.a7 ELSE net.a07
    IN  IF ~HasRows(used) THEN out
        ELSE LET totals == PepTotals(used.header, used.rows, 1, EmptyMap,
                                     start_year, end_year)
             IN  IF totals = Raised THEN Raised ELSE Update(out, totals)

\* the row loop of a July 1 window from row i
RECURSIVE PepJulyRows(_, _, _, _, _, _, _)
PepJulyRows(header, rows, col, i, out, start_year, end_year) ==
    IF i > Len(rows) THEN out
    ELSE IF HasCol(header, col) /\ rows[i][ColIndex(header, col)].t # "str"
    THEN Raised  \* TypeError: "July 1" in a value that is not a str
    ELSE LET desc == IF HasCol(header, col) THEN rows[i][ColIndex(header, col)].s
                     ELSE <<>>
         IN  IF ~Contains(desc, <<"J", "u", "l", "y", " ", "1">>)
             THEN PepJulyRows(header, rows, col, i + 1, out, start_year, end_year)
             ELSE LET year == extract_year_from_text(desc)
                      pop == ParsedCell(header, rows[i], "POP")
                  IN  IF year = Raised THEN Raised
                      ELSE IF year = None \/ pop = None
                      THEN PepJulyRows(header, rows, col, i + 1, out,
                                       start_year, end_year)
                      ELSE IF start_year <= year[1] /\ year[1] <= end_year
                      THEN PepJulyRows(header, rows, col, i + 1,
                                       Put(out, year[1], pop), start_year, end_year)
                      ELSE PepJulyRows(header, rows, col, i + 1, out,
                                       start_year, end_year)

PepJulyWindow(r, col, start_year, end_year, out) ==
    IF ~HasRows(r) THEN out
    ELSE PepJulyRows(r.header, r.rows, col, 1, out, start_year, end_year)

\* a July 1 window after the windows that gave out: an exception that left
\* an earlier window has ended the function; a window whose guard is false
\* is skipped
PepThen(out, applies, r, col, start_year, end_year) ==
    IF out = Raised THEN Raised
    ELSE IF applies THEN PepJulyWindow(r, col, start_year, end_year, out)
    ELSE out

\* out after window A, after window B and after window C
PepAfterA(net, start_year, end_year) ==
    IF end_year >= 1990 /\ start_year <= 2000
    THEN PepWindowA(net, start_year, end_year, EmptyMap)
    ELSE EmptyMap
PepAfterB(net, start_year, end_year) ==
    PepThen(PepAfterA(net, start_year, end_year),
            end_year >= 2000 /\ start_year <= 2010,
            net.b, "DATE_DESC", start_year, end_year)
PepAfterC(net, start_year, end_year) ==
    PepThen(PepAfterB(net, start_year, end_year),
            end_year >= 2010 /\ start_year <= 2019,
            net.c, "DATE_DESC", start_year, end_year)

\* the four windows in the order of the code
fetch_pep_us_population(net, start_year, end_year) ==
    PepThen(PepAfterC(net, start_year, end_year),
            end_year >= 2020 /\ start_year <= 2022,
            net.d, "MONTHLY_DESC", start_year, end_year)

(***************************************************************************)
(* Series tables and the FRED and BLS fetchers                             *)
(***************************************************************************)
FRED_SERIES ==
    << [id |-> "UNRATE", key |-> "unemployment_rate"],
       [id |-> "CPIAUCSL", key |-> "cpi_all_items"],
       [id |-> "FEDFUNDS", key |-> "fed_funds_rate"],
       [id |-> "T10Y2Y", key |-> "yield_spread_10y_2y"] >>
BLS_SERIES ==
    << [id |-> "LNS14000000", key |-> "unemployment_rate_bls"],
       [id |-> "CES0000000001", key |-> "total_nonfarm_payrolls"],
       [id |-> "LNS11300000", key |-> "labor_force_participation_rate"] >>
SeriesIds(series) == {series[i].id : i \in 1..Len(series)}
SeriesKeys(series) == {series[i].key : i \in 1..Len(series)}
\* the id of the series with a key (keys are unique in each table)
IdOfKey(series, k) == (CHOOSE i \in 1..Len(series) : series[i].key = k)

\* a FRED response: http_get_json raised, or the "observations" list
FredExc == [kind |-> "exc", obs |-> <<>>]
FredJson(obs) == [kind |-> "json", obs |-> obs]
Obs(d, v) == [date |-> d, value |-> v]

RECURSIVE FredLoop(_, _, _)
FredLoop(obs, i, out) ==
    IF i > Len(obs) THEN out
    ELSE FredLoop(obs, i + 1,
                  IF obs[i].date # <<>>
                  THEN Put(out, obs[i].date, parse_float(obs[i].value))
                  ELSE out)

fetch_fred_series(r) ==
    IF r.kind = "exc" THEN Raised ELSE FredLoop(r.obs, 1, EmptyMap)

\* a BLS response: http_post_json raised, or a status and the series list
BlsExc == [kind |-> "exc", status |-> "", series |-> <<>>]
BlsJson(status, series) == [kind |-> "json", status |-> status, series |-> series]
BlsSeries(sid, data) == [seriesID |-> sid, data |-> data]
BlsItem(y, period, v) == [year |-> y, period |-> period, value |-> v]

\* the item loop of one series from item i
RECURSIVE BlsItems(_, _, _)
BlsItems(data, i, out) ==
    IF i > Len(data) THEN out
    ELSE LET period == data[i].period
         IN  IF ~(period # <<>> /\ StartsWith(period, <<"M">>)
                  /\ period # <<"M", "1", "3">>)
             THEN BlsItems(data, i + 1, out)
             ELSE IF data[i].year # <<>>
             THEN BlsItems(data, i + 1,
                           Put(out,
                               data[i].year \o <<"-">> \o Slice(period, 1, Len(period))
                                   \o <<"-", "0", "1">>,
                               parse_float(data[i].value)))
             ELSE BlsItems(data, i + 1, out)

\* the series loop from series i; series_map[sid] raises KeyError for a
\* series that was not asked for
RECURSIVE BlsSeriesLoop(_, _, _)
BlsSeriesLoop(series, i, series_map) ==
    IF i > Len(series) THEN series_map
    ELSE IF series[i].seriesID = "" THEN BlsSeriesLoop(series, i + 1, series_map)
    ELSE IF series[i].seriesID \notin DOMAIN series_map
            /\ BlsItems(series[i].data, 1, EmptyMap) # EmptyMap
    THEN Raised
    ELSE IF series[i].seriesID \notin DOMAIN series_map
    THEN BlsSeriesLoop(series, i + 1, series_map)
    ELSE BlsSeriesLoop(series, i + 1,
                       [series_map EXCEPT ![series[i].seriesID] =
                           BlsItems(series[i].data, 1, @)])

\* a plausible slip: a failed chunk is skipped, as a failed CPS year is
fetch_bls_series_tolerant(r, series_ids) ==
    IF r.kind = "exc" \/ r.status # "REQUEST_SUCCEEDED"
    THEN [sid \in series_ids |-> EmptyMap]
    ELSE BlsSeriesLoop(r.series, 1, [sid \in series_ids |-> EmptyMap])

fetch_bls_series(r, series_ids) ==
    IF r.kind = "exc" THEN Raised
    ELSE IF r.status # "REQUEST_SUCCEEDED" THEN Raised
    ELSE BlsSeriesLoop(r.series, 1, [sid \in series_ids |-> EmptyMap])

(***************************************************************************)
(* The requests a fetcher issues: the log of main holds one entry per      *)
(* request, [src, a, b, ok], where (a, b) is the series index, the chunk's *)
(* years, the year or the window, and ok says whether a response came back *)
(***************************************************************************)
Req(src, a, b, ok) == [src |-> src, a |-> a, b |-> b, ok |-> ok]

RECURSIVE AcsRequests(_, _, _)
AcsRequests(net, y, end_year) ==
    IF y > end_year THEN <<>>
    ELSE IF net[y].kind = "exc" THEN <<Req("acs", y, y, FALSE)>>
    ELSE <<Req("acs", y, y, TRUE)>> \o AcsRequests(net, y + 1, end_year)

RECURSIVE CpsRequests(_, _, _)
CpsRequests(net, y, end_year) ==
    IF y > end_year THEN <<>>
    ELSE <<Req("cps", y, y, net[y].kind # "exc")>> \o CpsRequests(net, y + 1, end_year)

\* requests of fetch_pep_us_population: windows 1 = A "7", 2 = A "07",
\* 3 = B, 4 = C, 5 = D; a window that raises ends the function
ReqIf(issued, req) == IF issued THEN <<req>> ELSE <<>>
PepRequests(net, start_year, end_year) ==
    ReqIf(end_year >= 1990 /\ start_year <= 2000,
          Req("pep", 1, 7, net.a7.kind # "exc"))
    \o ReqIf(end_year >= 1990 /\ start_year <= 2000 /\ ~HasRows(net.a7),
             Req("pep", 2, 7, net.a07.kind # "exc"))
    \o ReqIf(PepAfterA(net, start_year, end_year) # Raised
                /\ end_year >= 2000 /\ start_year <= 2010,
             Req("pep", 3, 0, net.b.kind # "exc"))
    \o ReqIf(PepAfterB(net, start_year, end_year) # Raised
                /\ end_year >= 2010 /\ start_year <= 2019,
             Req("pep", 4, 0, net.c.kind # "exc"))
    \o ReqIf(PepAfterC(net, start_year, end_year) # Raised
                /\ end_year >= 2020 /\ start_year <= 2022,
             Req("pep", 5, 0, net.d.kind # "exc"))

(***************************************************************************)
(* main: the assembly of one document                                      *)
(***************************************************************************)
\* a plausible slip: the year of a month is its fiscal year, which starts in
\* October
YearOfMonthFiscal(m) ==
    IF IntOf(Slice(m, 5, 7))[1] >= 10 THEN IntOf(Slice(m, 0, 4))[1] + 1
    ELSE IntOf(Slice(m, 0, 4))[1]

\* int(m[:4])
YearOfMonth(m) == IntOf(Slice(m, 0, 4))[1]

\* acs_data.get(y, {}).get(k)
AcsGet(acs, y, k) == IF y \in DOMAIN acs THEN Get(acs[y], k) ELSE None

\* a plausible slip: a missing observation defaults to zero
SeriesFieldsZero(series, data, m) ==
    [k \in SeriesKeys(series) |->
        IF Get(data[series[IdOfKey(series, k)].id], m) = None THEN Some(0)
        ELSE Get(data[series[IdOfKey(series, k)].id], m)]

\* {s["key"]: data[s["id"]].get(m) for s in series}
SeriesFields(series, data, m) ==
    [k \in SeriesKeys(series) |-> Get(data[series[IdOfKey(series, k)].id], m)]

CENSUS_INCOME_CUTOFF == 2005

\* a plausible slip: the survey total is preferred to the vintage estimate
TotalPopulationAcsFirst(pep, acs, y) ==
    IF AcsGet(acs, y, "B01001_001E") # None THEN AcsGet(acs, y, "B01001_001E")
    ELSE Get(pep, y)

TotalPopulation(pep, acs, y) ==
    IF Get(pep, y) # None THEN Get(pep, y) ELSE AcsGet(acs, y, "B01001_001E")

\* a plausible slip: the microdata estimate is used when the survey has none
MedianIncomeFallsBack(acs, cps, y) ==
    IF y >= CENSUS_INCOME_CUTOFF /\ AcsGet(acs, y, "B19013_001E") # None
    THEN AcsGet(acs, y, "B19013_001E") ELSE Get(cps, y)

MedianIncome(acs, cps, y) ==
    IF y >= CENSUS_INCOME_CUTOFF THEN AcsGet(acs, y, "B19013_001E") ELSE Get(cps, y)

Doc(m, fred, bls, acs, cps, pep) ==
    LET y == YearOfMonth(m)
    IN  [date |-> m,
         fred |-> SeriesFields(FRED_SERIES, fred, m),
         bls |-> SeriesFields(BLS_SERIES, bls, m),
         census |-> [total_population |-> TotalPopulation(pep, acs, y),
                     median_household_income |-> MedianIncome(acs, cps, y)]]

\* docs = [] and one append per month
AssembleDocs(ms, fred, bls, acs, cps, pep) ==
    [i \in 1..Len(ms) |-> Doc(ms[i], fred, bls, acs, cps, pep)]

(***************************************************************************)
(* The written array.  json.dump writes the members of a dict in insertion *)
(* order: the keys of the literal of lines 402-418 as written there, the   *)
(* members of "fred" and "bls" in the order of FRED_SERIES and BLS_SERIES. *)
(* A written member is its path of keys and its value; a written record is *)
(* the sequence of its members, the file the sequence of its records.      *)
(***************************************************************************)
Member(path, value) == [path |-> path, value |-> value]

\* the members of {s["key"]: ... for s in series}, in the order of series
SeriesMembers(group, series, fields) ==
    [i \in 1..Len(series) |-> Member(<<group, series[i].key>>, fields[series[i].key])]

DocMembers(doc) ==
    << Member(<<"date">>, doc.date) >>
    \o SeriesMembers("fred", FRED_SERIES, doc.fred)
    \o SeriesMembers("bls", BLS_SERIES, doc.bls)
    \o << Member(<<"census", "total_population">>, doc.census.total_population),
          Member(<<"census", "median_household_income">>,
                 doc.census.median_household_income) >>

\* a plausible slip: the file is opened with "a", so the array is written
\* after what the file held
WriteJsonAppends(old, ds) ==
    old \o [i \in 1..Len(ds) |-> DocMembers(ds[i])]

\* with open(OUTPUT_PATH, "w") as f: json.dump(docs, f, indent=2); old is
\* what the file held, which opening with "w" discards
WriteJson(old, ds) ==
    [i \in 1..Len(ds) |-> DocMembers(ds[i])]

(***************************************************************************)
(* Specification SpecWM: weighted_median on drawn inputs                   *)
(***************************************************************************)
SeqsUpTo(S, n) == UNION {[1..k -> S] : k \in 0..n}

\* values of 0.1 .. MaxVal tenths; weights of -0.1, 0.1 .. 0.3, whose sums round,
\* and the whole weight 1.0
WmValues == 1..MaxVal
WmWeights == {0 - 1, 1, 2, 3, 10}

WmIdle == wm_pc = "idle" /\ wm_values = <<>> /\ wm_weights = <<>> /\ wm_result = None
MrIdle == mr_pc = "idle" /\ mr_start = START_DATE /\ mr_end = START_DATE /\ mr_out = <<>>
CyIdle == cy_pc = "idle" /\ cy_table = Empty /\ cy_result = None
CenIdle ==
    /\ cen_pc = "idle" /\ cen_fn = "none" /\ cen_start = 0 /\ cen_end = 0
    /\ cen_net = EmptyMap /\ cen_out = EmptyMap
PepIdle ==
    /\ pep_pc = "idle" /\ pep_start = 0 /\ pep_end = 0
    /\ pep_net = EmptyMap /\ pep_out = EmptyMap
MainIdle ==
    /\ fred_key = FALSE /\ bls_key = FALSE /\ census_key = FALSE
    /\ END_DATE = START_DATE /\ baseline = "none" /\ variations = 0
    /\ pc = "idle" /\ months = <<>> /\ fred_data = EmptyMap /\ fred_i = 0
    /\ bls_data = EmptyMap /\ bls_year = 0 /\ acs_data = EmptyMap
    /\ cps_income = EmptyMap /\ pep_population = EmptyMap
    /\ docs = <<>> /\ log = <<>> /\ files = {}
AsmIdle ==
    /\ asm_pc = "idle" /\ asm_months = <<>> /\ asm_fred = EmptyMap
    /\ asm_bls = EmptyMap /\ asm_acs = EmptyMap /\ asm_cps = EmptyMap
    /\ asm_pep = EmptyMap /\ asm_docs = <<>> /\ asm_file = <<>> /\ asm_first = <<>>
\* the components a specification does not exercise stay idle
IdleExcept(g) ==
    /\ (g = "wm" \/ WmIdle)
    /\ (g = "mr" \/ MrIdle)
    /\ (g = "cy" \/ CyIdle)
    /\ (g = "cen" \/ CenIdle)
    /\ (g = "pep" \/ PepIdle)
    /\ (g = "main" \/ MainIdle)
    /\ (g = "asm" \/ AsmIdle)

InitWM ==
    /\ wm_pc = "call"
    /\ wm_values \in SeqsUpTo(WmValues, MaxLen)
    /\ wm_weights \in SeqsUpTo(WmWeights, MaxLen)
    /\ wm_result = None
    /\ IdleExcept("wm")

WmApply ==
    /\ wm_pc = "call"
    /\ \E build \in SumBuilds :
          wm_result' = weighted_median(wm_values, wm_weights, build)
    /\ wm_pc' = "done"
    /\ UNCHANGED <<wm_values, wm_weights, notWm>>

NextWM == WmApply
SpecWM == InitWM /\ [][NextWM]_vars

(***************************************************************************)
(* Specification SpecMonths: month_range on drawn inputs                   *)
(***************************************************************************)
MrYears == START_DATE.year..(START_DATE.year + MaxSpanYears)
MrDates == {date(y, m, d) : y \in MrYears, m \in 1..12, d \in {1, 15}}

InitMonths ==
    /\ mr_pc = "call"
    /\ mr_start \in MrDates
    /\ mr_end \in MrDates
    /\ mr_out = <<>>
    /\ IdleExcept("mr")

MrApply ==
    /\ mr_pc = "call"
    /\ mr_out' = month_range(mr_start, mr_end)
    /\ mr_pc' = "done"
    /\ UNCHANGED <<mr_start, mr_end, notMr>>

NextMonths == MrApply
SpecMonths == InitMonths /\ [][NextMonths]_vars

(***************************************************************************)
(* Specification SpecCpsYear: the CPS row loop and weighted_median on one  *)
(* drawn response table                                                    *)
(***************************************************************************)
Str1 == <<"1">>
CpsValueCells == {JStr(<<"1">>), JStr(<<"2">>), JStr(<<"3">>), JStr(<<"N">>)}
CpsWeightCells == {JStr(<<"-", "1">>), JStr(<<"0">>), JStr(<<"1">>), JStr(<<"2">>), JNull}
CpsHeaders == { <<"HTOTVAL", "HSUP_WGT", "A_LINENO">>,
                <<"HSUP_WGT", "HTOTVAL", "A_LINENO">>,
                <<"HTOTVAL", "WGT", "A_LINENO">> }
\* a row for a header: the cells follow the header's column order
CpsRow(header, v, w) ==
    [i \in 1..3 |-> IF header[i] = "HTOTVAL" THEN v
                    ELSE IF header[i] = "A_LINENO" THEN JStr(Str1) ELSE w]
CpsRowsFor(header) == {CpsRow(header, v, w) : v \in CpsValueCells, w \in CpsWeightCells}
CpsTables ==
    UNION {{Table(h, rows) : rows \in SeqsUpTo(CpsRowsFor(h), MaxCpsRows) \ {<<>>}} :
           h \in CpsHeaders}

InitCpsYear ==
    /\ cy_pc = "call"
    /\ cy_table \in CpsTables
    /\ cy_result = None
    /\ IdleExcept("cy")

CyApply ==
    /\ cy_pc = "call"
    /\ \E build \in SumBuilds :
          cy_result' = CpsYearMedian(cy_table.header, cy_table.rows, build)
    /\ cy_pc' = "done"
    /\ UNCHANGED <<cy_table, notCy>>

NextCpsYear == CyApply
SpecCpsYear == InitCpsYear /\ [][NextCpsYear]_vars

(***************************************************************************)
(* Specification SpecCensus: fetch_census_acs1_us and                      *)
(* fetch_cps_asec_median_household_income on a drawn year range, against   *)
(* drawn per-year responses                                                *)
(***************************************************************************)
ACS_FIRST_YEAR == 2005
StrUS == <<"U", "S">>
Str300 == <<"3", "0", "0">>
Str310 == <<"3", "1", "0">>
Str50 == <<"5", "0">>
StrN == <<"N">>
AcsHeader == <<"NAME", "B01001_001E", "B19013_001E", "us">>
AcsResponses ==
    { Exc, Empty, Table(AcsHeader, <<>>),
      Table(AcsHeader, << <<JStr(StrUS), JStr(Str300), JStr(Str50), JStr(Str1)>> >>),
      Table(<<"NAME", "B01001_001E", "us">>,
            << <<JStr(StrUS), JStr(Str310), JStr(Str1)>> >>) }
CpsHeader == <<"HTOTVAL", "HSUP_WGT", "A_LINENO">>
CpsResponses ==
    { Exc, Empty, Table(CpsHeader, <<>>),
      Table(CpsHeader, << CpsRow(CpsHeader, JStr(<<"3">>), JStr(<<"1">>)),
                          CpsRow(CpsHeader, JStr(<<"1">>), JStr(<<"2">>)) >>),
      Table(CpsHeader, << CpsRow(CpsHeader, JStr(<<"2">>), JStr(<<"0">>)) >>),
      \* weights whose sum depends on the build of sum
      Table(CpsHeader, << CpsRow(CpsHeader, JStr(<<"1">>), JStr(<<"0", ".", "3">>)),
                          CpsRow(CpsHeader, JStr(<<"2">>), JStr(<<"0", ".", "1">>)),
                          CpsRow(CpsHeader, JStr(<<"3">>), JStr(<<"0", ".", "2">>)) >>) }

InitCensus ==
    /\ cen_pc = "call"
    /\ cen_fn \in {"acs", "cps"}
    /\ cen_start = ACS_FIRST_YEAR
    /\ cen_end \in (ACS_FIRST_YEAR - 1)..(ACS_FIRST_YEAR + MaxCenSpan)
    /\ cen_net \in [cen_start..cen_end ->
                       IF cen_fn = "acs" THEN AcsResponses ELSE CpsResponses]
    /\ cen_out = EmptyMap
    /\ IdleExcept("cen")

AcsCall ==
    /\ cen_pc = "call" /\ cen_fn = "acs"
    /\ cen_out' = fetch_census_acs1_us(cen_net, cen_start, cen_end)
    /\ cen_pc' = "done"
    /\ UNCHANGED <<cen_fn, cen_start, cen_end, cen_net, notCen>>

CpsCall ==
    /\ cen_pc = "call" /\ cen_fn = "cps"
    /\ \E build \in SumBuilds :
          cen_out' = fetch_cps_asec_median_household_income(cen_net, cen_start,
                                                            cen_end, build)
    /\ cen_pc' = "done"
    /\ UNCHANGED <<cen_fn, cen_start, cen_end, cen_net, notCen>>

NextCensus == AcsCall \/ CpsCall
SpecCensus == InitCensus /\ [][NextCensus]_vars

(***************************************************************************)
(* Specification SpecPep: fetch_pep_us_population on a drawn year range,   *)
(* against drawn responses of the four vintage endpoints                   *)
(***************************************************************************)
DescJuly2000 == <<"J", "u", "l", "y", " ", "1", ",", " ", "2", "0", "0", "0">>
DescApril2000 == <<"A", "p", "r", "i", "l", " ", "1", ",", " ", "2", "0", "0", "0">>
DescJuly2005 == <<"J", "u", "l", "y", " ", "1", ",", " ", "2", "0", "0", "5">>
DescJuly2010 == <<"J", "u", "l", "y", " ", "1", ",", " ", "2", "0", "1", "0">>
DescJuly2021 == <<"J", "u", "l", "y", " ", "1", ",", " ", "2", "0", "2", "1">>
\* a description holding the characters that the code's pattern matches
DescJulyPattern == <<"J", "u", "l", "y", " ", "1", ",", " ", "2", "0", "\\", "d", "d">>

PepAHeader == <<"YEAR", "MONTH", "TOT_POP", "AGE">>
PepARow(year, pop, age) == <<JStr(year), JStr(<<"7">>), JStr(pop), JStr(age)>>
Y1980 == <<"1", "9", "8", "0">>
Y1999 == <<"1", "9", "9", "9">>
Y2000 == <<"2", "0", "0", "0">>
PepAResponses ==
    { Exc, Table(PepAHeader, <<>>),
      Table(PepAHeader, << PepARow(Y2000, <<"1", "0", "0">>, <<"0">>),
                           PepARow(Y2000, <<"1", "8", "0">>, <<"1">>) >>),
      Table(PepAHeader, << PepARow(Y1999, <<"5", "0">>, <<"0">>),
                           PepARow(Y2000, <<"N">>, <<"0">>),
                           PepARow(Y1980, <<"7", "0">>, <<"0">>),
                           PepARow(Y1999, <<"2", "0">>, <<"1">>) >>) }
PepDescHeader == <<"DATE_DESC", "POP", "us">>
PepMonthlyHeader == <<"MONTHLY_DESC", "POP", "us">>
PepDescRow(desc, pop) == <<JStr(desc), JStr(pop), JStr(<<"1">>)>>
PepBResponses ==
    { Exc,
      Table(PepDescHeader, << PepDescRow(DescJuly2000, <<"2", "8", "1">>),
                              PepDescRow(DescApril2000, <<"9", "9", "9">>) >>),
      Table(PepDescHeader, << PepDescRow(DescJuly2010, <<"3", "0", "9">>),
                              PepDescRow(DescJuly2005, <<"N">>) >>) }
PepCResponses ==
    { Exc,
      Table(PepDescHeader, << PepDescRow(DescJuly2010, <<"3", "1", "0">>) >>) }
PepDResponses ==
    { Empty,
      Table(PepMonthlyHeader, << PepDescRow(DescJuly2021, <<"3", "3", "2">>) >>),
      Table(PepMonthlyHeader, << PepDescRow(DescJulyPattern, <<"1">>) >>) }
PepNets ==
    [a7 : PepAResponses, a07 : PepAResponses, b : PepBResponses,
     c : PepCResponses, d : PepDResponses]

InitPep ==
    /\ pep_pc = "call"
    /\ pep_start \in {START_DATE.year, 2001}
    /\ pep_end \in {1989, 2000, 2010, 2022}
    /\ pep_net \in PepNets
    /\ pep_out = EmptyMap
    /\ IdleExcept("pep")

PepCall ==
    /\ pep_pc = "call"
    /\ pep_out' = fetch_pep_us_population(pep_net, pep_start, pep_end)
    /\ pep_pc' = "done"
    /\ UNCHANGED <<pep_start, pep_end, pep_net, notPep>>

NextPep == PepCall
SpecPep == InitPep /\ [][NextPep]_vars

(***************************************************************************)
(* Specification Spec: main.  The environment is drawn in Init             *)
(* (credentials, today's date, and whether the sources serve data or       *)
(* nothing: the run's baseline); each request is answered by the baseline  *)
(* or, at most MaxVariations times in a run, otherwise.                    *)
(***************************************************************************)
EndDates == {date(START_DATE.year, 3, 31), date(MaxEndYear, 2, 14)}

D19850101 == <<"1", "9", "8", "5", "-", "0", "1", "-", "0", "1">>
D19850201 == <<"1", "9", "8", "5", "-", "0", "2", "-", "0", "1">>
D19850301 == <<"1", "9", "8", "5", "-", "0", "3", "-", "0", "1">>
V73 == <<"7", ".", "3">>
V72 == <<"7", ".", "2">>
FredSample ==
    << Obs(D19850101, JStr(V73)), Obs(D19850201, JStr(V72)),
       Obs(D19850301, JStr(<<".">>)) >>
FredResponses == {FredExc, FredJson(<<>>), FredJson(FredSample)}
FredNominal == IF baseline = "data" THEN FredJson(FredSample) ELSE FredJson(<<>>)

\* a chunk's sample: observations of the chunk's first year
BlsSample(chunk_start) ==
    << BlsSeries("LNS14000000",
                 << BlsItem(Pad4(chunk_start), <<"M", "0", "1">>, JStr(V73)),
                    BlsItem(Pad4(chunk_start), <<"M", "1", "3">>, JStr(V72)),
                    BlsItem(Pad4(chunk_start), <<"M", "0", "2">>, JStr(<<"-">>)) >>),
       BlsSeries("CES0000000001",
                 << BlsItem(Pad4(chunk_start), <<"M", "0", "3">>, JStr(Str300)) >>) >>
BlsResponsesFor(chunk_start) ==
    { BlsExc, BlsJson("REQUEST_NOT_PROCESSED", <<>>),
      BlsJson("REQUEST_SUCCEEDED", <<>>),
      BlsJson("REQUEST_SUCCEEDED", BlsSample(chunk_start)) }
BlsNominal(chunk_start) ==
    IF baseline = "data" THEN BlsJson("REQUEST_SUCCEEDED", BlsSample(chunk_start))
    ELSE BlsJson("REQUEST_SUCCEEDED", <<>>)

\* nets of a fetcher that issues several requests: the baseline answers all
\* of them but at most `left` of them
AcsOk == Table(AcsHeader, << <<JStr(StrUS), JStr(Str300), JStr(Str50), JStr(Str1)>> >>)
CpsOk == Table(CpsHeader, << CpsRow(CpsHeader, JStr(<<"3">>), JStr(<<"1">>)),
                             CpsRow(CpsHeader, JStr(<<"1">>), JStr(<<"2">>)) >>)
\* the years whose request may be answered otherwise: the first two and the
\* last
VariedYears(years) ==
    {y \in years : (y - 1 \notin years) \/ (y - 2 \notin years) \/ (y + 1 \notin years)}
YearNets(years, nominal, responses, left) ==
    {[y \in years |-> nominal]} \cup
    (IF left >= 1
     THEN {[y \in years |-> IF y = y0 THEN r ELSE nominal] :
              y0 \in VariedYears(years), r \in responses \ {nominal}}
     ELSE {})
NetVariations(net, nominal) == Cardinality({y \in DOMAIN net : net[y] # nominal})

AcsNominal == IF baseline = "data" THEN AcsOk ELSE Empty
CpsNominal == IF baseline = "data" THEN CpsOk ELSE Empty
MainAcsResponses == {Exc, Empty, AcsOk}
MainCpsResponses == {Exc, Empty, CpsOk}

PepTA == Table(PepAHeader, << PepARow(Y2000, <<"1", "0", "0">>, <<"0">>),
                              PepARow(Y2000, <<"1", "8", "0">>, <<"1">>) >>)
Y2005 == <<"2", "0", "0", "5">>
PepTA2005 == Table(PepAHeader, << PepARow(Y2005, <<"2", "9", "0">>, <<"0">>) >>)
PepTAbad == Table(PepAHeader, << PepARow(<<"N">>, <<"1">>, <<"0">>) >>)
PepTB == Table(PepDescHeader, << PepDescRow(DescJuly2000, <<"2", "8", "1">>),
                                 PepDescRow(DescApril2000, <<"9", "9", "9">>) >>)
PepTC == Table(PepDescHeader, << PepDescRow(DescJuly2010, <<"3", "1", "0">>) >>)
PepTD == Table(PepMonthlyHeader, << PepDescRow(DescJuly2021, <<"3", "3", "2">>) >>)
PepNominal ==
    IF baseline = "data"
    THEN [a7 |-> PepTA, a07 |-> PepTA, b |-> PepTB, c |-> PepTC, d |-> PepTD]
    ELSE [a7 |-> Exc, a07 |-> Exc, b |-> Exc, c |-> Exc, d |-> Exc]
MainPepResponses ==
    [a7 |-> {Exc, PepTA, PepTA2005, PepTAbad}, a07 |-> {Exc, PepTA}, b |-> {Exc, PepTB},
     c |-> {Exc, PepTC}, d |-> {Exc, PepTD}]
MainPepNets(left) ==
    {PepNominal} \cup
    (IF left >= 1
     THEN {[PepNominal EXCEPT ![w] = r] :
              w \in DOMAIN PepNominal, r \in UNION {MainPepResponses[x] : x \in DOMAIN PepNominal}}
          \cap [a7 : MainPepResponses.a7, a07 : MainPepResponses.a07,
                b : MainPepResponses.b, c : MainPepResponses.c, d : MainPepResponses.d]
     ELSE {})

Init ==
    /\ fred_key \in BOOLEAN /\ bls_key \in BOOLEAN /\ census_key \in BOOLEAN
    /\ END_DATE \in EndDates
    /\ baseline \in {"data", "empty"}
    /\ variations = 0
    /\ pc = "start"
    /\ months = <<>> /\ fred_data = EmptyMap /\ fred_i = 0
    /\ bls_data = EmptyMap /\ bls_year = 0 /\ acs_data = EmptyMap
    /\ cps_income = EmptyMap /\ pep_population = EmptyMap
    /\ docs = <<>> /\ log = <<>> /\ files = {}
    /\ IdleExcept("main")

\* a plausible slip: only the FRED credential is required
CheckCredentialsFredOnly ==
    /\ pc = "start"
    /\ IF ~fred_key
       THEN /\ pc' = "returned 1"
            /\ UNCHANGED <<months, fred_i>>
       ELSE /\ months' = LET ms == month_range(START_DATE, END_DATE)
                          IN  [i \in 1..Len(ms) |-> isoformat(ms[i])]
            /\ fred_i' = 1
            /\ pc' = "fred"
    /\ UNCHANGED <<envVars, variations, fred_data, bls_data, bls_year, acs_data,
                   cps_income, pep_population, docs, log, files, notMain>>

\* lines 364-374: the credential check and the monthly index
CheckCredentials ==
    /\ pc = "start"
    /\ IF ~fred_key \/ ~census_key
       THEN /\ pc' = "returned 1"
            /\ UNCHANGED <<months, fred_i>>
       ELSE /\ months' = LET ms == month_range(START_DATE, END_DATE)
                          IN  [i \in 1..Len(ms) |-> isoformat(ms[i])]
            /\ fred_i' = 1
            /\ pc' = "fred"
    /\ UNCHANGED <<envVars, variations, fred_data, bls_data, bls_year, acs_data,
                   cps_income, pep_population, docs, log, files, notMain>>

\* lines 378-383: one iteration of the FRED loop; after the last one the
\* BLS dictionary and the chunk loop variable are set up
FetchFred ==
    /\ pc = "fred"
    /\ \E r \in {FredNominal} \cup
                (IF variations < MaxVariations THEN FredResponses ELSE {}) :
          /\ variations' = IF r = FredNominal THEN variations ELSE variations + 1
          /\ log' = Append(log, Req("fred", fred_i, fred_i, r.kind # "exc"))
          /\ IF fetch_fred_series(r) = Raised
             THEN /\ pc' = "raised"
                  /\ UNCHANGED <<fred_data, fred_i, bls_data, bls_year>>
             ELSE /\ fred_data' = Put(fred_data, FRED_SERIES[fred_i].id,
                                      fetch_fred_series(r))
                  /\ IF fred_i < Len(FRED_SERIES)
                     THEN /\ fred_i' = fred_i + 1
                          /\ pc' = "fred"
                          /\ UNCHANGED <<bls_data, bls_year>>
                     ELSE /\ bls_data' = [sid \in SeriesIds(BLS_SERIES) |-> EmptyMap]
                          /\ bls_year' = START_DATE.year
                          /\ pc' = IF START_DATE.year <= END_DATE.year
                                   THEN "bls" ELSE "acs"
                          /\ UNCHANGED fred_i
    /\ UNCHANGED <<envVars, months, acs_data, cps_income, pep_population, docs,
                   files, notMain>>

\* a plausible slip: a chunk ends 20 years after its first year, so it
\* spans 21 years
FetchBlsChunkOffByOne ==
    /\ pc = "bls"
    /\ LET chunk_start == bls_year
           chunk_end == Min(bls_year + 20, END_DATE.year)
       IN  \E r \in {BlsNominal(chunk_start)} \cup
                    (IF variations < MaxVariations
                     THEN BlsResponsesFor(chunk_start) ELSE {}) :
              /\ variations' = IF r = BlsNominal(chunk_start)
                               THEN variations ELSE variations + 1
              /\ log' = Append(log, Req("bls", chunk_start, chunk_end,
                                        r.kind # "exc" /\ r.status = "REQUEST_SUCCEEDED"))
              /\ IF fetch_bls_series(r, SeriesIds(BLS_SERIES)) = Raised
                 THEN /\ pc' = "raised"
                      /\ UNCHANGED <<bls_data, bls_year>>
                 ELSE /\ bls_data' =
                            [sid \in DOMAIN bls_data |->
                                Update(bls_data[sid],
                                       fetch_bls_series(r, SeriesIds(BLS_SERIES))[sid])]
                      /\ bls_year' = chunk_end + 1
                      /\ pc' = IF chunk_end + 1 <= END_DATE.year THEN "bls" ELSE "acs"
    /\ UNCHANGED <<envVars, months, fred_data, fred_i, acs_data, cps_income,
                   pep_population, docs, files, notMain>>

\* lines 384-390: one iteration of the BLS chunk loop
FetchBlsChunk ==
    /\ pc = "bls"
    /\ LET chunk_start == bls_year
           chunk_end == Min(bls_year + 19, END_DATE.year)
       IN  \E r \in {BlsNominal(chunk_start)} \cup
                    (IF variations < MaxVariations
                     THEN BlsResponsesFor(chunk_start) ELSE {}) :
              /\ variations' = IF r = BlsNominal(chunk_start)
                               THEN variations ELSE variations + 1
              /\ log' = Append(log, Req("bls", chunk_start, chunk_end,
                                        r.kind # "exc" /\ r.status = "REQUEST_SUCCEEDED"))
              /\ IF fetch_bls_series(r, SeriesIds(BLS_SERIES)) = Raised
                 THEN /\ pc' = "raised"
                      /\ UNCHANGED <<bls_data, bls_year>>
                 ELSE /\ bls_data' =
                            [sid \in DOMAIN bls_data |->
                                Update(bls_data[sid],
                                       fetch_bls_series(r, SeriesIds(BLS_SERIES))[sid])]
                      /\ bls_year' = chunk_end + 1
                      /\ pc' = IF chunk_end + 1 <= END_DATE.year THEN "bls" ELSE "acs"
    /\ UNCHANGED <<envVars, months, fred_data, fred_i, acs_data, cps_income,
                   pep_population, docs, files, notMain>>

\* line 392
FetchAcs ==
    /\ pc = "acs"
    /\ \E net \in YearNets(ACS_FIRST_YEAR..END_DATE.year, AcsNominal,
                           MainAcsResponses, MaxVariations - variations) :
          /\ variations' = variations + NetVariations(net, AcsNominal)
          /\ acs_data' = fetch_census_acs1_us(net, ACS_FIRST_YEAR, END_DATE.year)
          /\ log' = log \o AcsRequests(net, ACS_FIRST_YEAR, END_DATE.year)
    /\ pc' = "cps"
    /\ UNCHANGED <<envVars, months, fred_data, fred_i, bls_data, bls_year,
                   cps_income, pep_population, docs, files, notMain>>

CPS_FIRST_YEAR == 1992
CPS_LAST_YEAR == 2004

\* lines 393-395
FetchCps ==
    /\ pc = "cps"
    /\ \E net \in YearNets(CPS_FIRST_YEAR..Min(CPS_LAST_YEAR, END_DATE.year),
                           CpsNominal, MainCpsResponses, MaxVariations - variations),
          build \in SumBuilds :
          /\ variations' = variations + NetVariations(net, CpsNominal)
          /\ cps_income' = fetch_cps_asec_median_household_income(
                               net, CPS_FIRST_YEAR, Min(CPS_LAST_YEAR, END_DATE.year),
                               build)
          /\ log' = log \o CpsRequests(net, CPS_FIRST_YEAR,
                                       Min(CPS_LAST_YEAR, END_DATE.year))
    /\ pc' = "pep"
    /\ UNCHANGED <<envVars, months, fred_data, fred_i, bls_data, bls_year,
                   acs_data, pep_population, docs, files, notMain>>

\* line 396
FetchPep ==
    /\ pc = "pep"
    /\ \E net \in MainPepNets(MaxVariations - variations) :
          /\ variations' = variations + (IF net = PepNominal THEN 0 ELSE 1)
          /\ log' = log \o PepRequests(net, START_DATE.year, END_DATE.year)
          /\ IF fetch_pep_us_population(net, START_DATE.year, END_DATE.year) = Raised
             THEN pc' = "raised" /\ UNCHANGED pep_population
             ELSE /\ pep_population' =
                        fetch_pep_us_population(net, START_DATE.year, END_DATE.year)
                  /\ pc' = "assemble"
    /\ UNCHANGED <<envVars, months, fred_data, fred_i, bls_data, bls_year,
                   acs_data, cps_income, docs, files, notMain>>

\* a plausible slip: a month for which no source has a value gets no record
HasValue(doc) ==
    \/ \E k \in DOMAIN doc.fred : doc.fred[k] # None
    \/ \E k \in DOMAIN doc.bls : doc.bls[k] # None
    \/ doc.census.total_population # None
    \/ doc.census.median_household_income # None
AssembleSkipsEmptyMonths ==
    /\ pc = "assemble"
    /\ docs' = SelectSeq([i \in 1..Len(months) |->
                             Doc(months[i], fred_data, bls_data, acs_data, cps_income,
                                 pep_population)], HasValue)
    /\ pc' = "write"
    /\ UNCHANGED <<envVars, variations, months, fred_data, fred_i, bls_data,
                   bls_year, acs_data, cps_income, pep_population, log, files,
                   notMain>>

\* lines 399-419
Assemble ==
    /\ pc = "assemble"
    /\ docs' = AssembleDocs(months, fred_data, bls_data, acs_data, cps_income,
                            pep_population)
    /\ pc' = "write"
    /\ UNCHANGED <<envVars, variations, months, fred_data, fred_i, bls_data,
                   bls_year, acs_data, cps_income, pep_population, log, files,
                   notMain>>

OUTPUT_PATH == "data/macro_labor_us_monthly_1985_present.json"
SERIES_DEFS_PATH == "data/series_definitions.json"

\* lines 422-436
WriteOutput ==
    /\ pc = "write"
    /\ files' = {OUTPUT_PATH, SERIES_DEFS_PATH}
    /\ pc' = "returned 0"
    /\ UNCHANGED <<envVars, variations, months, fred_data, fred_i, bls_data,
                   bls_year, acs_data, cps_income, pep_population, docs, log,
                   notMain>>

Next ==
    \/ CheckCredentials
    \/ FetchFred
    \/ FetchBlsChunk
    \/ FetchAcs
    \/ FetchCps
    \/ FetchPep
    \/ Assemble
    \/ WriteOutput
Spec == Init /\ [][Next]_vars

(***************************************************************************)
(* Specification SpecAssemble: the assembly step and the write of the      *)
(* array run twice on the same drawn maps and month axis.  asm_file is     *)
(* what the file at OUTPUT_PATH holds, asm_first what it held after the    *)
(* first run.                                                              *)
(***************************************************************************)
AsmDates == {date(2004, 11, 1), date(2004, 12, 1), date(2005, 1, 1), date(2005, 2, 1)}
AsmAxis(start, end) ==
    LET ms == month_range(start, end) IN [i \in 1..Len(ms) |-> isoformat(ms[i])]
AsmObserved ==
    Put(Put(EmptyMap, isoformat(date(2004, 12, 1)), Some(54)),
        isoformat(date(2005, 1, 1)), None)
\* every series empty, or the first series with two observations
AsmSeriesMaps(series) ==
    { [sid \in SeriesIds(series) |-> EmptyMap],
      [sid \in SeriesIds(series) |-> IF sid = series[1].id THEN AsmObserved ELSE EmptyMap] }
AsmYears == {2004, 2005}
\* the maps from some of the years to values
AsmYearMaps(values) == UNION {[ys -> values] : ys \in SUBSET AsmYears}
AsmAcsValues ==
    { [k \in CENSUS_VAR_IDS |-> None],
      [k \in CENSUS_VAR_IDS |-> IF k = "B01001_001E" THEN Some(3000) ELSE Some(500)] }

\* the file is absent or empty, or holds the array of an earlier build
AsmStaleFiles ==
    { <<>>, << << Member(<<"date">>, isoformat(date(1984, 12, 1))) >> >> }

InitAssemble ==
    /\ asm_pc = "first"
    /\ \E start \in AsmDates, end \in AsmDates : asm_months = AsmAxis(start, end)
    /\ asm_fred \in AsmSeriesMaps(FRED_SERIES)
    /\ asm_bls \in AsmSeriesMaps(BLS_SERIES)
    /\ asm_acs \in AsmYearMaps(AsmAcsValues)
    /\ asm_cps \in AsmYearMaps({None, Some(10)})
    /\ asm_pep \in AsmYearMaps({Some(2800)})
    /\ asm_docs = <<>> /\ asm_first = <<>>
    /\ asm_file \in AsmStaleFiles
    /\ IdleExcept("asm")

\* lines 399-424, a first and a second time
AsmRun ==
    /\ asm_pc \in {"first", "second"}
    /\ asm_first' = asm_file
    /\ asm_docs' = AssembleDocs(asm_months, asm_fred, asm_bls, asm_acs, asm_cps,
                                asm_pep)
    /\ asm_file' = WriteJson(asm_file, asm_docs')
    /\ asm_pc' = IF asm_pc = "first" THEN "second" ELSE "done"
    /\ UNCHANGED <<asm_months, asm_fred, asm_bls, asm_acs, asm_cps, asm_pep, notAsm>>

NextAssemble == AsmRun
SpecAssemble == InitAssemble /\ [][NextAssemble]_vars

(***************************************************************************)
(* Claims about weighted_median (SpecWM)                                   *)
(***************************************************************************)
RECURSIVE SumOver(_, _)
SumOver(S, w) ==
    IF S = {} THEN 0
    ELSE LET i == CHOOSE j \in S : TRUE IN w[i] + SumOver(S \ {i}, w)

SetMin(S) == CHOOSE x \in S : \A y \in S : x <= y

WmN == Min(Len(wm_values), Len(wm_weights))
\* the place of pair j in ascending order of value, pairs of equal value in
\* input order, and the pair at place r
WmPlace(j) ==
    Cardinality({i \in 1..WmN : \/ wm_values[i] < wm_values[j]
                                \/ (wm_values[i] = wm_values[j] /\ i <= j)})
WmPairAt(r) == CHOOSE j \in 1..WmN : WmPlace(j) = r
\* the pairs in that order
WmSorted == [r \in 1..WmN |-> <<wm_values[WmPairAt(r)], wm_weights[WmPairAt(r)]>>]
\* the places from r on at which the running sum is at least half the
\* total, running being the floating-point sum before place r
RECURSIVE WmReachedFrom(_, _, _, _)
WmReachedFrom(sorted, r, running, total) ==
    IF r > Len(sorted) THEN {}
    ELSE LET after == FloatAdd(running, ToFloat(sorted[r][2]))
         IN  (IF FloatReachesHalf(after, total) THEN {r} ELSE {})
                 \cup WmReachedFrom(sorted, r + 1, after, total)
\* the result the claim gives for non-empty sorted pairs and a total
WmClaimed(sorted, total) ==
    IF FloatNotPositive(total) THEN None
    ELSE LET reached == WmReachedFrom(sorted, 1, FloatZero, total)
         IN  IF reached = {} THEN Raised ELSE Some(sorted[SetMin(reached)][1])

\* the same sums in exact arithmetic on the tenths
RECURSIVE WmExactSum(_, _)
WmExactSum(sorted, r) == IF r = 0 THEN 0 ELSE WmExactSum(sorted, r - 1) + sorted[r][2]
WmExactClaimed(sorted) ==
    IF WmExactSum(sorted, Len(sorted)) <= 0 THEN None
    ELSE LET reached == {r \in 1..Len(sorted) :
                            2 * WmExactSum(sorted, r) >= WmExactSum(sorted, Len(sorted))}
         IN  IF reached = {} THEN Raised ELSE Some(sorted[SetMin(reached)][1])
WmWholeWeights == \A j \in 1..WmN : wm_weights[j] % 10 = 0

\* C3: weighted_median returns None when the input is empty or the total
\* weight is not positive; otherwise it returns the value of the first pair,
\* in ascending order of value, at which the running sum of weights is at
\* least half of the total weight.  The sums are the floating-point sums of
\* the program, the total being the built-in sum of one of the interpreter
\* builds; with whole-number weights they are the exact sums.
C3_WeightedMedianWalk ==
    wm_pc = "done" =>
        IF WmN = 0 THEN wm_result = None
        ELSE LET sorted == WmSorted
             IN  /\ \E build \in SumBuilds :
                       wm_result = WmClaimed(sorted, SumWeights(sorted, build))
                 /\ WmWholeWeights => wm_result = WmExactClaimed(sorted)

C3_Witness ==
    /\ wm_pc = "done"
    /\ WmN = 3
    /\ wm_result # None
    /\ \E j \in 1..WmN : wm_weights[j] < 0
    /\ \E a, b \in 1..WmN : wm_values[a] < wm_result[1] /\ wm_result[1] < wm_values[b]

\* the two builds of sum give different medians of one input, which is
\* reached with each
C3_BuildsDiffer ==
    /\ wm_pc = "done"
    /\ WmN = 3
    /\ weighted_median(wm_values, wm_weights, "sequential")
          # weighted_median(wm_values, wm_weights, "compensated")

\* the k-th smallest of a list of values, duplicates counted
KthSmallest(vals, k) ==
    CHOOSE v \in {vals[i] : i \in 1..Len(vals)} :
        /\ Cardinality({i \in 1..Len(vals) : vals[i] < v}) < k
        /\ Cardinality({i \in 1..Len(vals) : vals[i] <= v}) >= k

WmUnitWeights ==
    /\ Len(wm_values) >= 1
    /\ Len(wm_weights) = Len(wm_values)
    /\ \A i \in 1..Len(wm_weights) : wm_weights[i] = 10

\* C4 as stated: with all weights equal to 1 the result is the ordinary
\* median, the mean of the two middle values when their number is even.
C4_OrdinaryMedian ==
    (wm_pc = "done" /\ WmUnitWeights) =>
        LET n == Len(wm_values)
            lo == KthSmallest(wm_values, (n + 1) \div 2)
            hi == KthSmallest(wm_values, n \div 2 + 1)
        IN  wm_result # None /\ 2 * wm_result[1] = lo + hi

\* C4 as amended: with all weights equal to 1 the result is the lower
\* median: the middle value of an odd number of values, and the lower of
\* the two middle values (not their mean) of an even number.
C4_LowerMedian ==
    (wm_pc = "done" /\ WmUnitWeights) =>
        wm_result = Some(KthSmallest(wm_values, (Len(wm_values) + 1) \div 2))

C4_Witness ==
    /\ wm_pc = "done"
    /\ WmUnitWeights
    /\ Len(wm_values) = 2
    /\ wm_values[1] > wm_values[2]
    /\ wm_result = Some(wm_values[2])

(***************************************************************************)
(* Claims about month_range (SpecMonths)                                   *)
(***************************************************************************)
MonthIndex(d) == d.year * 12 + d.month
MrCount == MonthIndex(mr_end) - MonthIndex(mr_start) + 1
DateLE(a, b) ==
    \/ a.year < b.year
    \/ (a.year = b.year /\ a.month < b.month)
    \/ (a.year = b.year /\ a.month = b.month /\ a.day <= b.day)

\* the sequence is the run of consecutive first-of-month dates that starts
\* at start's month and has n elements
MrIsAxis(out, start, n) ==
    /\ Len(out) = n
    /\ \A i \in 1..Len(out) :
          /\ out[i].day = 1
          /\ out[i].month \in 1..12
          /\ MonthIndex(out[i]) = MonthIndex(start) + i - 1
    /\ \A i \in 1..(Len(out) - 1) :
          /\ MonthIndex(out[i]) < MonthIndex(out[i + 1])
          /\ (out[i].month = 12 =>
                 out[i + 1].month = 1 /\ out[i + 1].year = out[i].year + 1)

\* C8 as stated: for start <= end the count formula holds and the dates are
\* the consecutive first-of-month dates; when end precedes start the
\* sequence is empty.
C8_MonthRangeByDate ==
    mr_pc = "done" =>
        IF DateLE(mr_start, mr_end)
        THEN MrIsAxis(mr_out, mr_start, MrCount)
        ELSE mr_out = <<>>

\* C8 as amended: the comparison is by (year, month) alone.  Whenever
\* start's month is not after end's month (so whenever start <= end) the
\* count formula holds and the dates are the consecutive first-of-month
\* dates; the sequence is empty exactly when end's month precedes start's
\* month, so an end earlier in start's own month still yields that month.
C8_MonthRangeByMonth ==
    mr_pc = "done" =>
        IF MonthIndex(mr_start) <= MonthIndex(mr_end)
        THEN MrIsAxis(mr_out, mr_start, MrCount)
        ELSE mr_out = <<>>

C8_Witness ==
    /\ mr_pc = "done"
    /\ mr_start.year < mr_end.year
    /\ mr_start.month = 11
    /\ mr_end.month = 2
    /\ Len(mr_out) = 4
    /\ mr_out[3] = date(mr_end.year, 1, 1)

(***************************************************************************)
(* Claims about the CPS estimator (SpecCpsYear)                            *)
(***************************************************************************)
\* the weight cell of a row is absent, unparsable or not positive
CyWeightExcluded(row) ==
    LET w == ParsedCell(cy_table.header, row, "HSUP_WGT")
    IN  w = None \/ w[1] <= 0
CyRowsWithoutExcluded == SelectSeq(cy_table.rows, LAMBDA row : ~CyWeightExcluded(row))

\* C5: the estimator's result on a table is the result on the same table
\* with every row of non-positive or absent weight removed.
C5_NonPositiveWeightsExcluded ==
    cy_pc = "done" =>
        \E build \in SumBuilds :
            /\ cy_result = CpsYearMedian(cy_table.header, cy_table.rows, build)
            /\ cy_result = CpsYearMedian(cy_table.header, CyRowsWithoutExcluded, build)

C5_Witness ==
    /\ cy_pc = "done"
    /\ Len(cy_table.rows) = 2
    /\ \E i \in 1..2 :
          LET w == ParsedCell(cy_table.header, cy_table.rows[i], "HSUP_WGT")
              v == ParsedCell(cy_table.header, cy_table.rows[i], "HTOTVAL")
          IN  w # None /\ w[1] < 0 /\ v # None /\ Some(v[1]) # cy_result
    /\ cy_result # None

(***************************************************************************)
(* Claims about the per-year Census fetchers (SpecCensus)                  *)
(***************************************************************************)
CenYears == cen_start..cen_end
\* the year's own fetch succeeds with a header and at least one data row
CenWellFormed(y) == cen_net[y].kind = "table" /\ Len(cen_net[y].rows) >= 1
\* what a well-formed response of year y parses to
CenParsed(y, build) ==
    IF cen_fn = "acs"
    THEN AcsYearValues(cen_net[y].header, cen_net[y].rows[1])
    ELSE CpsYearMedian(cen_net[y].header, cen_net[y].rows, build)

\* C10 as stated: a failed or empty fetch for one year removes that year
\* only; every year whose own response is well formed is in the returned
\* map with its parsed values, the years after a failed one included.
C10_FailureRemovesOneYear ==
    cen_pc = "done" =>
        \E build \in SumBuilds :
            \A y \in CenYears :
                CenWellFormed(y) =>
                    (y \in DOMAIN cen_out /\ cen_out[y] = CenParsed(y, build))

\* the years the ACS loop never requests: those after the first failed one
CenAfterFailure(y) == \E x \in CenYears : x < y /\ cen_net[x].kind = "exc"

\* C10 as amended: in the CPS fetcher a failed or empty fetch removes that
\* year only.  In the ACS fetcher an empty or short response removes that
\* year only, but a failed request ends the loop: the map holds exactly the
\* well-formed years before the first failed year.
C10_FailureRemovesOneYearOrTail ==
    cen_pc = "done" =>
        /\ DOMAIN cen_out =
              {y \in CenYears : /\ CenWellFormed(y)
                                /\ (cen_fn = "acs" => ~CenAfterFailure(y))}
        /\ \E build \in SumBuilds :
              \A y \in DOMAIN cen_out : cen_out[y] = CenParsed(y, build)

C10_Witness ==
    /\ cen_pc = "done"
    /\ cen_fn = "cps"
    /\ cen_end = cen_start + 2
    /\ CenWellFormed(cen_start)
    /\ cen_net[cen_start + 1].kind = "exc"
    /\ CenWellFormed(cen_start + 2)
    /\ DOMAIN cen_out = {cen_start, cen_start + 2}
    /\ cen_out[cen_start + 2] # None

\* the ACS loop stops at a failed year and loses the later well-formed year
C10_AcsWitness ==
    /\ cen_pc = "done"
    /\ cen_fn = "acs"
    /\ cen_end = cen_start + 2
    /\ CenWellFormed(cen_start)
    /\ cen_net[cen_start + 1].kind = "exc"
    /\ CenWellFormed(cen_start + 2)
    /\ DOMAIN cen_out = {cen_start}

(***************************************************************************)
(* Claims about fetch_pep_us_population (SpecPep)                          *)
(***************************************************************************)
SetMax(S) == CHOOSE x \in S : \A y \in S : y <= x

\* the guard of each window: 1 = A, 2 = B, 3 = C, 4 = D
PepApplies(w) ==
    CASE w = 1 -> pep_end >= 1990 /\ pep_start <= 2000
      [] w = 2 -> pep_end >= 2000 /\ pep_start <= 2010
      [] w = 3 -> pep_end >= 2010 /\ pep_start <= 2019
      [] w = 4 -> pep_end >= 2020 /\ pep_start <= 2022
PepResponse(w) ==
    CASE w = 2 -> pep_net.b [] w = 3 -> pep_net.c [] w = 4 -> pep_net.d
PepDescCol(w) == IF w = 4 THEN "MONTHLY_DESC" ELSE "DATE_DESC"

\* the rows of a July 1 window that report year y: the description holds
\* "July 1" and the four-digit year y, and POP parses
PepJulyRowsFor(w, y) ==
    LET r == PepResponse(w)
    IN  {i \in 1..Len(r.rows) :
            /\ HasCol(r.header, PepDescCol(w))
            /\ r.rows[i][ColIndex(r.header, PepDescCol(w))].t = "str"
            /\ Contains(r.rows[i][ColIndex(r.header, PepDescCol(w))].s,
                        <<"J", "u", "l", "y", " ", "1">>)
            /\ extract_year_four_digits(
                   r.rows[i][ColIndex(r.header, PepDescCol(w))].s) = Some(y)
            /\ ParsedCell(r.header, r.rows[i], "POP") # None}

\* what window A alone records
PepAOut == PepWindowA(pep_net, pep_start, pep_end, EmptyMap)

\* window w reports a value for year y, and the value it reports
PepReports(w, y) ==
    /\ PepApplies(w)
    /\ y >= pep_start /\ y <= pep_end
    /\ IF w = 1 THEN y \in DOMAIN PepAOut ELSE PepJulyRowsFor(w, y) # {}
PepReported(w, y) ==
    IF w = 1 THEN PepAOut[y]
    ELSE ParsedCell(PepResponse(w).header,
                    PepResponse(w).rows[SetMax(PepJulyRowsFor(w, y))], "POP")

\* C2: the windows are applied in the order A, B, C, D and, for every year
\* that some window reports, the returned map holds the value of the last
\* window that reports it (281 from window B over 280 from window A for
\* the year 2000).
C2_LaterWindowWins ==
    (pep_pc = "done" /\ pep_out # Raised) =>
        \A y \in pep_start..pep_end :
            LET reporters == {w \in 1..4 : PepReports(w, y)}
            IN  reporters # {} =>
                    /\ y \in DOMAIN pep_out
                    /\ pep_out[y] = PepReported(SetMax(reporters), y)

(***************************************************************************)
(* Claims about main (Spec)                                                *)
(***************************************************************************)
\* main has assembled docs and is about to write them (writing leaves docs
\* as they are)
Assembled == pc = "write"
\* the number of calendar months from START_DATE to END_DATE inclusive
AxisCount == MonthIndex(END_DATE) - MonthIndex(START_DATE) + 1
\* the i-th calendar month from START_DATE
AxisYear(i) == (MonthIndex(START_DATE) + i - 2) \div 12
AxisMonth(i) == ((MonthIndex(START_DATE) + i - 2) % 12) + 1
AxisKey(i) == Pad4(AxisYear(i)) \o <<"-">> \o Pad2(AxisMonth(i)) \o <<"-", "0", "1">>
\* the position of a date string in the order of the calendar
KeyIndex(k) == DigitsVal(SubSeq(k, 1, 4)) * 12 + DigitsVal(SubSeq(k, 6, 7))

\* C1: the docs array main assembles holds exactly one record for every
\* calendar month from START_DATE to END_DATE inclusive, each dated
\* 'YYYY-MM-01', in strictly ascending date order, no month missing and no
\* date twice, whatever the FRED, BLS, ACS, CPS and PEP maps hold
C1_OneRecordPerMonth ==
    Assembled =>
        /\ Len(docs) = AxisCount
        /\ \A i \in 1..Len(docs) : docs[i].date = AxisKey(i)
        /\ \A i \in 1..(Len(docs) - 1) : KeyIndex(docs[i].date) < KeyIndex(docs[i + 1].date)
        /\ Cardinality({docs[i].date : i \in 1..Len(docs)}) = Len(docs)

AllMapsEmpty ==
    /\ \A sid \in DOMAIN fred_data : fred_data[sid] = EmptyMap
    /\ \A sid \in DOMAIN bls_data : bls_data[sid] = EmptyMap
    /\ acs_data = EmptyMap /\ cps_income = EmptyMap /\ pep_population = EmptyMap
\* a run to the end of MaxEndYear's February is assembled from empty maps
C1_Witness ==
    /\ pc = "returned 0"
    /\ END_DATE.year = MaxEndYear
    /\ AllMapsEmpty
    /\ Len(docs) = 12 * (MaxEndYear - START_DATE.year) + 2
    /\ docs[Len(docs)].date = Pad4(MaxEndYear) \o <<"-", "0", "2", "-", "0", "1">>

\* the value the fallback rules resolve for a year y from the three maps
ResolvedPopulation(y) ==
    IF y \in DOMAIN pep_population /\ pep_population[y] # None
    THEN pep_population[y]
    ELSE IF y \in DOMAIN acs_data THEN acs_data[y]["B01001_001E"] ELSE None
ResolvedIncome(y) ==
    IF y >= 2005
    THEN (IF y \in DOMAIN acs_data THEN acs_data[y]["B19013_001E"] ELSE None)
    ELSE (IF y \in DOMAIN cps_income THEN cps_income[y] ELSE None)

\* C6: census fields are forward-filled within a year: all records whose
\* date lies in one calendar year carry the same total_population and the
\* same median_household_income, the value resolved for that year
C6_CensusForwardFill ==
    Assembled =>
        /\ \A i \in 1..(Len(docs) - 1) :
              AxisYear(i) = AxisYear(i + 1) => docs[i].census = docs[i + 1].census
        /\ \A i \in 1..Len(docs) :
              /\ docs[i].census.total_population = ResolvedPopulation(AxisYear(i))
              /\ docs[i].census.median_household_income = ResolvedIncome(AxisYear(i))

\* the twelve records of 2004 carry one income and one population, and the
\* records of 2005 carry other ones
C6_Witness ==
    /\ pc = "returned 0"
    /\ Len(docs) >= 12 * (2005 - START_DATE.year) + 12
    /\ LET jan == 12 * (2004 - START_DATE.year) + 1
       IN  /\ docs[jan].date = <<"2", "0", "0", "4", "-", "0", "1", "-", "0", "1">>
           /\ docs[jan].census.median_household_income # None
           /\ \A i \in jan..(jan + 11) : docs[i].census = docs[jan].census
           /\ docs[jan + 12].census.median_household_income # None
           /\ docs[jan + 12].census.median_household_income
                 # docs[jan].census.median_household_income
           /\ docs[jan + 12].census.total_population # docs[jan].census.total_population

\* the value a normalized series map holds for a month key
Held(map, m) == IF m \in DOMAIN map THEN map[m] ELSE None

\* C7: for every month on the axis and every FRED and BLS field the record
\* holds what the normalized series map holds for the month's key, and
\* absent when the map has no entry or holds absent: a number appears in a
\* record only if the map holds that number, so never zero by default.
\* With every source answering with its sample, the first three records
\* carry 7.3, 7.2 and absent (the "." observation) for the unemployment rate
\* and every later record absent
C7_SeriesFieldsFromMaps ==
    Assembled =>
        /\ \A i \in 1..Len(docs) :
              LET k == AxisKey(i)
              IN  /\ DOMAIN docs[i].fred = {FRED_SERIES[n].key : n \in 1..Len(FRED_SERIES)}
                  /\ DOMAIN docs[i].bls = {BLS_SERIES[n].key : n \in 1..Len(BLS_SERIES)}
                  /\ \A n \in 1..Len(FRED_SERIES) :
                        docs[i].fred[FRED_SERIES[n].key]
                            = Held(fred_data[FRED_SERIES[n].id], k)
                  /\ \A n \in 1..Len(BLS_SERIES) :
                        docs[i].bls[BLS_SERIES[n].key]
                            = Held(bls_data[BLS_SERIES[n].id], k)
        /\ (baseline = "data" /\ variations = 0) =>
              \A i \in 1..Len(docs) :
                 docs[i].fred["unemployment_rate"] =
                    (IF i = 1 THEN Some(73) ELSE IF i = 2 THEN Some(72) ELSE None)

\* a run on the samples: January and February carry the observed rates,
\* March (observed as ".") and April (not observed) carry absent, and the
\* BLS annual average (M13) of the first chunk is in no record
C7_Witness ==
    /\ pc = "returned 0"
    /\ baseline = "data" /\ variations = 0
    /\ Len(docs) >= 4
    /\ docs[1].fred["unemployment_rate"] = Some(73)
    /\ docs[2].fred["cpi_all_items"] = Some(72)
    /\ docs[3].fred["unemployment_rate"] = None
    /\ docs[4].fred["unemployment_rate"] = None
    /\ docs[1].bls["unemployment_rate_bls"] = Some(73)
    /\ docs[2].bls["unemployment_rate_bls"] = None
    /\ docs[3].bls["total_nonfarm_payrolls"] = Some(3000)
    /\ docs[3].bls["labor_force_participation_rate"] = None

\* the requests of the log that failed
Failed(src) == {k \in 1..Len(log) : log[k].src = src /\ ~log[k].ok}
\* main ended with an exception that the last request raised
FatalFailure(srcs) ==
    /\ pc = "raised"
    /\ log # <<>>
    /\ log[Len(log)].src \in srcs
    /\ ~log[Len(log)].ok
Completed ==
    /\ files = {OUTPUT_PATH, SERIES_DEFS_PATH}
    /\ Len(docs) = AxisCount
    /\ \A i \in 1..Len(docs) : docs[i].date = AxisKey(i)

\* C9 as stated: with the credentials present, the failed request of one
\* BLS chunk, one population window or one Census year never ends the
\* build: the run goes on to write one record per month, and the failed
\* slice contributes no data
C9_SliceFailureNonFatal ==
    /\ ~FatalFailure({"bls", "pep", "acs", "cps"})
    /\ (pc = "returned 0" => Completed)
    /\ \A k \in Failed("cps") \cup Failed("acs") : log[k].a \notin DOMAIN
          (IF log[k].src = "cps" THEN cps_income ELSE acs_data)

\* C9 as the code has it: the failed request of one population window, one
\* CPS year or one ACS year never ends main with an exception, and a run
\* that returns 0 has written the files with one record per month.  A failed CPS year contributes no data and the later
\* years are still requested; a failed ACS year ends the ACS loop, so that
\* year and every later one contribute no data and are not requested.  A
\* failed BLS chunk request (like a failed FRED request) ends main with the
\* exception: it is the last request of the run and no file is written
C9_CensusFailureNonFatalBlsFatal ==
    /\ ~FatalFailure({"pep", "acs", "cps"})
    /\ (pc = "returned 0" => Completed)
    /\ \A k \in Failed("cps") :
          /\ log[k].a \notin DOMAIN cps_income
          /\ \A y \in (log[k].a + 1)..Min(CPS_LAST_YEAR, END_DATE.year) :
                \E n \in (k + 1)..Len(log) : log[n].src = "cps" /\ log[n].a = y
    /\ \A k \in Failed("acs") :
          /\ \A y \in DOMAIN acs_data : y < log[k].a
          /\ \A n \in (k + 1)..Len(log) : log[n].src # "acs"
    /\ \A k \in Failed("bls") \cup Failed("fred") :
          /\ k = Len(log)
          /\ pc = "raised"
    /\ (pc = "raised" =>
          /\ files = {} /\ docs = <<>>
          /\ log # <<>>
          /\ \/ FatalFailure({"fred", "bls"})
             \/ log[Len(log)].src = "pep" /\ log[Len(log)].ok)

\* a run in which the ACS request of the second year failed is complete,
\* with the first ACS year only
C9_Witness ==
    /\ pc = "returned 0"
    /\ Completed
    /\ Len(docs) > 12
    /\ \E k \in Failed("acs") :
          /\ log[k].a = ACS_FIRST_YEAR + 1
          /\ DOMAIN acs_data = {ACS_FIRST_YEAR}
    /\ Failed("cps") = {} /\ Failed("pep") = {}

CredentialMissing == ~fred_key \/ ~census_key

\* C11: when FRED_API_KEY or CENSUS_API_KEY is missing, main returns a
\* non-zero result at the credential check: in no state of such a run has a
\* request been issued, a record assembled or a file written, and the run
\* is either at its start or has returned 1; a run with both credentials
\* never returns 1
C11_MissingCredentialAborts ==
    /\ CredentialMissing =>
          /\ pc \in {"start", "returned 1"}
          /\ log = <<>> /\ files = {} /\ docs = <<>> /\ months = <<>>
          /\ AllMapsEmpty
    /\ pc = "returned 1" => CredentialMissing

\* a run with the FRED credential and without the Census one has returned 1
C11_Witness ==
    /\ pc = "returned 1"
    /\ fred_key /\ ~census_key
    /\ log = <<>> /\ files = {}

\* what each census source holds for a year
PepValue(y) == IF y \in DOMAIN pep_population THEN pep_population[y] ELSE None
AcsValue(y, k) == IF y \in DOMAIN acs_data THEN acs_data[y][k] ELSE None
CpsValue(y) == IF y \in DOMAIN cps_income THEN cps_income[y] ELSE None

\* C12: for every month of every year y on the axis, total_population is
\* the population estimate of the vintage windows for y when there is one,
\* otherwise the ACS1 total for y, and absent only when neither source has
\* a value for y.  The rule has no year condition, so it is the same for
\* the years before 2005: the ACS1 map holds no year before 2005, and such
\* a year without an estimate is absent
C12_PopulationPrefersPep ==
    Assembled =>
        /\ \A i \in 1..Len(docs) :
              LET y == AxisYear(i)
                  pop == docs[i].census.total_population
              IN  /\ PepValue(y) # None => pop = PepValue(y)
                  /\ PepValue(y) = None => pop = AcsValue(y, "B01001_001E")
                  /\ pop = None <=>
                        (PepValue(y) = None /\ AcsValue(y, "B01001_001E") = None)
        /\ \A y \in DOMAIN acs_data : y >= ACS_FIRST_YEAR

\* a run in which 2005 has both an estimate (290) and an ACS1 total (300),
\* 2006 has the ACS1 total only and 2004 has neither
C12_Witness ==
    /\ pc = "returned 0"
    /\ PepValue(2005) = Some(2900)
    /\ AcsValue(2005, "B01001_001E") = Some(3000)
    /\ PepValue(2006) = None /\ AcsValue(2006, "B01001_001E") = Some(3000)
    /\ PepValue(2004) = None /\ AcsValue(2004, "B01001_001E") = None
    /\ LET jan == 12 * (2005 - START_DATE.year) + 1
       IN  /\ docs[jan].census.total_population = Some(2900)
           /\ docs[jan + 12].census.total_population = Some(3000)
           /\ docs[jan - 1].census.total_population = None

(***************************************************************************)
(* Claims about the assembly step (SpecAssemble)                           *)
(***************************************************************************)
KeyYear(k) == DigitsVal(SubSeq(k, 1, 4))
AsmAcsIncome(y) == IF y \in DOMAIN asm_acs THEN asm_acs[y]["B19013_001E"] ELSE None
AsmCpsIncome(y) == IF y \in DOMAIN asm_cps THEN asm_cps[y] ELSE None

\* C13: the source of median_household_income is chosen by the year alone:
\* for every month of a year y >= 2005 the field is the ACS1 median income
\* for y, for every month of a year y < 2005 it is the CPS weighted median
\* for y, whatever the other source holds for y; when the selected source
\* has no value for y the field is absent
C13_IncomeSourceByYear ==
    asm_pc \in {"second", "done"} =>
        \A i \in 1..Len(asm_docs) :
           LET y == KeyYear(asm_docs[i].date)
               income == asm_docs[i].census.median_household_income
           IN  /\ y >= 2005 => income = AsmAcsIncome(y)
               /\ y < 2005 => income = AsmCpsIncome(y)

\* the axis December 2004 - January 2005 where the source that is not
\* selected has a value and the selected one has none: both months absent
C13_Witness ==
    /\ asm_pc = "done"
    /\ Len(asm_docs) = 2
    /\ KeyYear(asm_docs[1].date) = 2004 /\ KeyYear(asm_docs[2].date) = 2005
    /\ AsmAcsIncome(2004) = Some(500) /\ AsmCpsIncome(2004) = None
    /\ AsmAcsIncome(2005) = None /\ AsmCpsIncome(2005) = Some(10)
    /\ asm_docs[1].census.median_household_income = None
    /\ asm_docs[2].census.median_household_income = None

\* the members the claim expects for the record of month m, stated from the
\* maps: the keys in the order of the output, each with the value held
C14_Population(y) ==
    IF y \in DOMAIN asm_pep /\ asm_pep[y] # None THEN asm_pep[y]
    ELSE IF y \in DOMAIN asm_acs THEN asm_acs[y]["B01001_001E"] ELSE None
C14_Income(y) == IF y >= 2005 THEN AsmAcsIncome(y) ELSE AsmCpsIncome(y)
C14_Record(m) ==
    << [path |-> <<"date">>, value |-> m],
       [path |-> <<"fred", "unemployment_rate">>, value |-> Held(asm_fred["UNRATE"], m)],
       [path |-> <<"fred", "cpi_all_items">>, value |-> Held(asm_fred["CPIAUCSL"], m)],
       [path |-> <<"fred", "fed_funds_rate">>, value |-> Held(asm_fred["FEDFUNDS"], m)],
       [path |-> <<"fred", "yield_spread_10y_2y">>, value |-> Held(asm_fred["T10Y2Y"], m)],
       [path |-> <<"bls", "unemployment_rate_bls">>,
        value |-> Held(asm_bls["LNS14000000"], m)],
       [path |-> <<"bls", "total_nonfarm_payrolls">>,
        value |-> Held(asm_bls["CES0000000001"], m)],
       [path |-> <<"bls", "labor_force_participation_rate">>,
        value |-> Held(asm_bls["LNS11300000"], m)],
       [path |-> <<"census", "total_population">>, value |-> C14_Population(KeyYear(m))],
       [path |-> <<"census", "median_household_income">>,
        value |-> C14_Income(KeyYear(m))] >>

\* C14: the assembly step is deterministic and idempotent: run a second
\* time on the same maps and the same month axis, the written array is the
\* array the first run wrote, whatever the file held before: one record per
\* month of the axis in the order of the axis, each record with the same
\* field keys in the same order (date, the fred keys, the bls keys, the two
\* census keys) and the same values, those the maps hold
C14_AssemblyIdempotent ==
    asm_pc = "done" =>
        /\ asm_file = asm_first
        /\ Len(asm_file) = Len(asm_months)
        /\ \A i \in 1..Len(asm_file) : asm_file[i] = C14_Record(asm_months[i])

\* two runs over a four-month axis whose records carry values from every
\* source
C14_Witness ==
    /\ asm_pc = "done"
    /\ Len(asm_months) = 4
    /\ Len(asm_first) = 4 /\ Len(asm_file) = 4
    /\ asm_file[2][2] = [path |-> <<"fred", "unemployment_rate">>, value |-> Some(54)]
    /\ asm_file[2][6] = [path |-> <<"bls", "unemployment_rate_bls">>, value |-> Some(54)]
    /\ asm_file[3][9] = [path |-> <<"census", "total_population">>, value |-> Some(2800)]
    /\ asm_file[1][10] = [path |-> <<"census", "median_household_income">>,
                          value |-> Some(10)]

(***************************************************************************)
(* Claims about the July 1 windows (SpecPep)                               *)
(***************************************************************************)
\* C15: in windows B, C and D a row contributes exactly when its
\* description denotes a July 1 date: every row whose description holds
\* 'July 1' and a four-digit year y of [start_year, end_year] and whose POP
\* parses gives y a value in the result, and a row without 'July 1' (an
\* April 1 census base) gives nothing, so that every year of the result
\* comes from window A or from such a July 1 row
C15_JulyRowsContribute ==
    (pep_pc = "done" /\ pep_out # Raised) =>
        /\ \A w \in 2..4 : \A y \in pep_start..pep_end :
              (PepApplies(w) /\ PepJulyRowsFor(w, y) # {}) => y \in DOMAIN pep_out
        /\ \A y \in DOMAIN pep_out :
              \/ y \in DOMAIN PepAOut
              \/ \E w \in 2..4 : PepApplies(w) /\ PepJulyRowsFor(w, y) # {}

(***************************************************************************)
(* Claims about window A (SpecPep)                                         *)
(***************************************************************************)
\* the response window A uses: the first attempt ('7') when it has data
\* rows, the second ('07') otherwise
PepAUsed == IF HasRows(pep_net.a7) THEN pep_net.a7 ELSE pep_net.a07
\* the rows of a table that count for year y: YEAR is y and TOT_POP parses
PepARowsFor(r, y) ==
    IF r.kind # "table" THEN {}
    ELSE {i \in 1..Len(r.rows) :
             /\ Truthy(r.rows[i][ColIndex(r.header, "YEAR")])
             /\ IntOfCell(r.rows[i][ColIndex(r.header, "YEAR")]) = Some(y)
             /\ ParsedCell(r.header, r.rows[i], "TOT_POP") # None}
PepATotPop(r) ==
    [i \in 1..Len(r.rows) |->
        IF ParsedCell(r.header, r.rows[i], "TOT_POP") = None THEN 0
        ELSE ParsedCell(r.header, r.rows[i], "TOT_POP")[1]]
\* no July 1 window reports year y
PepOnlyA(y) == \A w \in 2..4 : ~(PepApplies(w) /\ PepJulyRowsFor(w, y) # {})

\* C16: for window A the value recorded for a year y of [start_year,
\* end_year] is the sum of TOT_POP over the rows of year y whose TOT_POP
\* parses, in the one attempt that is used: the '07' attempt is made only
\* when the '7' attempt failed or had no data rows, so nothing of the two
\* attempts is added together; a year with no such row gets no value from
\* window A, and rows of years outside the range add nothing
C16_WindowASumsAgeRows ==
    (pep_pc = "done" /\ pep_out # Raised) =>
        /\ \A y \in pep_start..pep_end :
              (PepApplies(1) /\ PepOnlyA(y)) =>
                 IF PepARowsFor(PepAUsed, y) # {}
                 THEN /\ y \in DOMAIN pep_out
                      /\ pep_out[y] = Some(SumOver(PepARowsFor(PepAUsed, y),
                                                   PepATotPop(PepAUsed)))
                 ELSE y \notin DOMAIN pep_out
        /\ \A y \in DOMAIN pep_out : y >= pep_start /\ y <= pep_end

\* the first attempt has two parsable rows of 1999 (50 and 20), a row of
\* 1980 and an unparsable one; the second attempt has rows of 2000: the
\* result holds 70 for 1999 and nothing else
C16_Witness ==
    /\ pep_pc = "done"
    /\ pep_start = 1985 /\ pep_end = 2000
    /\ HasRows(pep_net.a7) /\ HasRows(pep_net.a07)
    /\ PepARowsFor(pep_net.a07, 2000) # {}
    /\ Cardinality(PepARowsFor(pep_net.a7, 1999)) = 2
    /\ PepARowsFor(pep_net.a7, 1980) # {}
    /\ pep_out # Raised
    /\ DOMAIN pep_out = {1999}
    /\ pep_out[1999] = Some(700)

(***************************************************************************)
(* Claims about the BLS chunk loop (Spec)                                  *)
(***************************************************************************)
\* the BLS requests of the log, and the loop has ended without an exception
BlsReqs == {k \in 1..Len(log) : log[k].src = "bls"}
BlsLoopEnded == pc \in {"acs", "cps", "pep", "assemble", "write", "returned 0"}

C17_Chunks ==
    /\ \A k \in BlsReqs :
          /\ log[k].a <= log[k].b
          /\ log[k].b - log[k].a + 1 <= 20
          /\ log[k].a >= START_DATE.year /\ log[k].b <= END_DATE.year
          /\ IF k - 1 \in BlsReqs THEN log[k].a = log[k - 1].b + 1
             ELSE log[k].a = START_DATE.year /\ (\A n \in BlsReqs : n >= k)
    /\ Cardinality(BlsReqs) <= (END_DATE.year - START_DATE.year) \div 20 + 1
    /\ pc = "bls" =>
          /\ bls_year <= END_DATE.year
          /\ bls_year = IF BlsReqs = {} THEN START_DATE.year
                        ELSE log[SetMax(BlsReqs)].b + 1
    /\ BlsLoopEnded =>
          \A y \in START_DATE.year..END_DATE.year :
             Cardinality({k \in BlsReqs : log[k].a <= y /\ y <= log[k].b}) = 1
C17_MergeKeeps ==
    \A sid \in DOMAIN bls_data : \A m \in DOMAIN bls_data[sid] :
       /\ sid \in DOMAIN bls_data'
       /\ m \in DOMAIN bls_data'[sid]
       /\ bls_data'[sid][m] = bls_data[sid][m]

\* C17: the BLS chunk loop ends after at most one request per 20 years of
\* the range; the requests are issued in ascending order, each for at most
\* 20 years, each starting the year after the previous one ended, so the
\* ranges are disjoint and, when the loop has ended, every year from
\* START_DATE.year to END_DATE.year lies in exactly one of them; with
\* responses that hold the requested years only, merging a chunk never
\* changes a value an earlier chunk has set
C17_BlsChunkLoop == []C17_Chunks /\ [][C17_MergeKeeps]_vars

\* a run to MaxEndYear with three chunks, each of which set a value
C17_Witness ==
    /\ pc = "returned 0"
    /\ Cardinality(BlsReqs) = 3
    /\ \E k \in BlsReqs :
          /\ log[k].a = 1985 /\ log[k].b = 2004
          /\ log[k + 1].a = 2005 /\ log[k + 1].b = 2024
          /\ log[k + 2].a = 2025 /\ log[k + 2].b = MaxEndYear
    /\ \A y \in {1985, 2005, 2025} :
          Pad4(y) \o <<"-", "0", "1", "-", "0", "1">> \in DOMAIN bls_data["LNS14000000"]

====
